---- MODULE Spec2Model ----
(***************************************************************************)
(* Room presence detection: master receiver (recv_master_RX1/main/         *)
(* app_main.c) and slave receiver (recv_slave/main/app_main.c).            *)
(*                                                                         *)
(* Number representation.  The C code works on 32-bit floats.  The model   *)
(* uses exact fixed-point integers:                                        *)
(*   - wander / jitter / thresholds in units of 0.00001  (0.0001 = 10)     *)
(*   - sensitivities in units of 0.001                   (0.15   = 150)    *)
(* so "value * sensitivity > threshold" is the integer comparison          *)
(* value * sens > threshold * SensScale.  Float rounding is not modelled;  *)
(* the sample values are chosen so that every division is exact.           *)
(* uint32_t quantities (clock, timestamps, counters) keep their width: a   *)
(* value v is the pair <<v \div 2^16, v % 2^16>> of 16-bit halves, and the *)
(* arithmetic below is arithmetic modulo 2^32 on such pairs.               *)
(***************************************************************************)
EXTENDS Integers, Sequences, FiniteSets, TLC

\* ------------------------------------------------------------ constants
RADAR_BUFF_MAX_LEN == 25
MAX_SLAVE_NODES == 2
LINK_TIMEOUT_MS == 3000
NUM_LINKS == 3
BUFF_MIN_SIZE == 5
REPORT_SIZE == 17
DEFAULT_CAL_DURATION_MS == 30000
SensScale == 10 * 10 * 10
Half == 256 * 256

\* default values of g_state (master), fixed point
M_DEF_WANDER_TH == 0
M_DEF_JITTER_TH == 30
EPSILON == 10
DEF_WANDER_SENS == 150
DEF_JITTER_SENS == 200
SENS_MIN == 1
SENS_MAX == 5000

\* ------------------------------------------------------------ bounds
MaxSamples == 7
MaxTicks == 2
TimeQuantum == LINK_TIMEOUT_MS \div 2

\* ------------------------------------------------------------ 32-bit arithmetic
\* the uint32_t with value n, for 0 <= n < 2^31
U32(n) == <<n \div Half, n % Half>>
Add32(a, b) ==
    LET lo == a[2] + b[2]
    IN <<(a[1] + b[1] + (lo \div Half)) % Half, lo % Half>>
Sub32(a, b) ==
    LET lo == a[2] - b[2] + Half
    IN <<(a[1] - b[1] - (IF lo < Half THEN 1 ELSE 0) + Half) % Half, lo % Half>>
Lt32(a, b) == a[1] < b[1] \/ (a[1] = b[1] /\ a[2] < b[2])
Ge32(a, b) == ~Lt32(a, b)
\* a % m for a small modulus m
Mod32(a, m) == (((a[1] % m) * (Half % m)) + (a[2] % m)) % m

\* ------------------------------------------------------------ statistics
\* One inner-loop step of the bubble sort: compare sorted[j], sorted[j+1]
\* (1-based here) and swap when out of order.
SwapStep(s, j) ==
    IF s[j] > s[j + 1]
    THEN [s EXCEPT ![j] = s[j + 1], ![j + 1] = s[j]]
    ELSE s

RECURSIVE BubbleInner(_, _, _)
BubbleInner(s, j, lim) ==
    IF j > lim THEN s ELSE BubbleInner(SwapStep(s, j), j + 1, lim)

RECURSIVE BubbleOuter(_, _)
BubbleOuter(s, i) ==
    IF i >= Len(s) - 1 THEN s
    ELSE BubbleOuter(BubbleInner(s, 1, Len(s) - i - 1), i + 1)

BubbleSort(s) == BubbleOuter(s, 0)

RECURSIVE SumRange(_, _, _)
SumRange(s, lo, hi) == IF lo > hi THEN 0 ELSE s[lo] + SumRange(s, lo + 1, hi)

\* a variant of TrimCount that drops percent of the samples from each end
TrimWholePercent(len) == (len * 5) \div 10

\* trim = (size_t)(len * percent / 2) with percent = 0.5f = 5/10
TrimCount(len) == (len * 5) \div (10 * 2)

\* trimmean(array, len, 0.5f): array is a sequence of length len
trimmean(array) ==
    IF Len(array) = 0 THEN 0
    ELSE LET sorted == BubbleSort(array)
             trim   == TrimCount(Len(array))
             count  == Len(array) - 2 * trim
         IN IF count > 0
            THEN SumRange(sorted, trim + 1, Len(array) - trim) \div count
            ELSE 0

median(array) ==
    IF Len(array) = 0 THEN 0
    ELSE LET sorted == BubbleSort(array)
             len    == Len(array)
         IN IF len % 2 = 0
            THEN (sorted[len \div 2] + sorted[len \div 2 + 1]) \div 2
            ELSE sorted[len \div 2 + 1]

\* a variant of stat_call whose functions sort the caller's array
StatCallInPlace(array) ==
    [input |-> array, array |-> BubbleSort(array),
     trimmean |-> trimmean(array), median |-> median(array)]

\* trimmean(array, len, 0.5f) and median(array, len) called on one array:
\* both take a const pointer and sort a copy (memcpy into sorted), so the
\* caller's array is afterwards what was handed in
stat_call(array) ==
    [input |-> array, array |-> array,
     trimmean |-> trimmean(array), median |-> median(array)]

\* the C array buff[0..24] read as a sequence
BuffSeq(buff) == [k \in 1..RADAR_BUFF_MAX_LEN |-> buff[k - 1]]

\* ------------------------------------------------------------ state
VARIABLES
    g_state,        \* master: master_state_t g_state
    nvs,            \* master: contents of the NVS namespace "presence"
    m_tx,           \* master: ESP-NOW messages sent by the last handler run
    clock,          \* esp_log_timestamp(), milliseconds, uint32
    g_state_mutex,  \* master: holder of g_state_mutex, or "free"
    task,           \* master: position and locals of the tasks that are taken
                    \*         step by step (the two callback tasks, or the HTTP
                    \*         server and timer tasks)
    last_pass,      \* master: clock reading and counters of the fusion pass that
                    \*         finished last (history of the pass's locals)
    observed,       \* master: last status a presentation reader formatted
    train,          \* master: the training accumulator of the sensing library
    http_req,       \* master: the request http_post_sensitivity handled last
    g_detect,       \* slave: detection_state_t g_detect
    g_node_id,      \* slave: node id
    s_nvs,          \* slave: contents of the NVS namespace "presence"
    s_tx,           \* slave: ESP-NOW messages sent by the last handler run
    s_last_send_time, \* slave: static s_last_send_time of wifi_radar_cb
    s_train,        \* slave: whether the sensing library is training
    s_rx,           \* slave: the message handed to the last handler run (empty
                    \*        when that run was the sample callback)
    bench,          \* rig: the node that is powered in this run and what
                    \*      drives it ("none" where a specification fixes both)
    stat,           \* rig: the inputs last handed to the functions put to
                    \*      the test on their own, with what they returned
    cal_log,        \* rig: what the master's calibration controller has done:
                    \*      commands broadcast in all, the stop actions run
                    \*      since the last start, and what triggered it last
    s_cal_since,    \* rig: the clock reading at which the slave last went
                    \*      from Idle to Training
    twin            \* rig: g_state of a second master that is fed the same
                    \*      events (untouched where a single master runs)

vars == <<g_state, nvs, m_tx, clock, g_state_mutex, task, last_pass, observed, train,
          http_req, g_detect, g_node_id, s_nvs, s_tx, s_last_send_time, s_train,
          s_rx, bench, stat, cal_log, s_cal_since, twin>>
masterVars == <<g_state, nvs, m_tx, g_state_mutex, task, last_pass, observed, train,
                http_req>>
slaveVars == <<g_detect, g_node_id, s_nvs, s_tx, s_last_send_time, s_train, s_rx>>
rigVars == <<bench, stat, cal_log, s_cal_since, twin>>

Links == 0..(NUM_LINKS - 1)
Slots == 0..(RADAR_BUFF_MAX_LEN - 1)

\* ------------------------------------------------------------ master: NVS
\* link_status_t as zero-initialised by the g_state initialiser
LinkDefault ==
    [active |-> FALSE, room_status |-> FALSE, human_status |-> FALSE,
     wander |-> 0, jitter |-> 0, rssi |-> 0, last_update |-> U32(0),
     wander_sensitivity |-> DEF_WANDER_SENS,
     jitter_sensitivity |-> DEF_JITTER_SENS]

\* static master_state_t g_state = { ... }
GStateDefault ==
    [wander_buff |-> [k \in Slots |-> 0],
     jitter_buff |-> [k \in Slots |-> 0],
     buff_count |-> U32(0),
     wander_threshold |-> M_DEF_WANDER_TH,
     jitter_threshold |-> M_DEF_JITTER_TH,
     links |-> [i \in Links |-> LinkDefault],
     room_status |-> FALSE,
     human_status |-> FALSE,
     calibrating |-> FALSE,
     calibration_start_time |-> U32(0),
     calibration_duration_ms |-> U32(DEFAULT_CAL_DURATION_MS)]

\* The store is a function from the keys present to their values; the empty
\* function is a namespace that was never written (nvs_open fails READONLY).
EmptyStore == [k \in {} |-> 0]
WSensKey(i) == <<"link0_w_sens", "link1_w_sens", "link2_w_sens">>[i + 1]
JSensKey(i) == <<"link0_j_sens", "link1_j_sens", "link2_j_sens">>[i + 1]
\* a variant of Lookup under which a missing key reads as zero
LookupOrZero(store, key, dflt) == IF key \in DOMAIN store THEN store[key] ELSE 0
\* nvs_get_blob(handle, key, &field, &len): the field is written only when
\* the key is found
Lookup(store, key, dflt) == IF key \in DOMAIN store THEN store[key] ELSE dflt

\* nvs_save_settings (master): what a successful save leaves in the store
MasterStoreOf(st) ==
    [k \in {"wander_th", "jitter_th"}
            \cup {WSensKey(i) : i \in Links} \cup {JSensKey(i) : i \in Links} |->
        IF k = "wander_th" THEN st.wander_threshold
        ELSE IF k = "jitter_th" THEN st.jitter_threshold
        ELSE IF \E i \in Links : k = WSensKey(i)
             THEN st.links[CHOOSE i \in Links : k = WSensKey(i)].wander_sensitivity
             ELSE st.links[CHOOSE i \in Links : k = JSensKey(i)].jitter_sensitivity]

\* nvs_save_settings (master); open_ok is the result of nvs_open
nvs_save_settings(st, store, open_ok) ==
    IF open_ok THEN MasterStoreOf(st) ELSE store

\* nvs_load_settings (master): nvs_open fails on a namespace never written;
\* otherwise every key present overwrites its field, a missing key leaves it
nvs_load_settings(st, store) ==
    IF store = EmptyStore THEN st
    ELSE [st EXCEPT
            !.wander_threshold = Lookup(store, "wander_th", st.wander_threshold),
            !.jitter_threshold = Lookup(store, "jitter_th", st.jitter_threshold),
            !.links = [i \in Links |->
                [st.links[i] EXCEPT
                    !.wander_sensitivity =
                        Lookup(store, WSensKey(i), st.links[i].wander_sensitivity),
                    !.jitter_sensitivity =
                        Lookup(store, JSensKey(i), st.links[i].jitter_sensitivity)]]]

\* ------------------------------------------------------------ master: fusion
\* recalculate_link_status(link_idx) on the state st
recalculate_link_status(st, link_idx) ==
    LET link == st.links[link_idx]
    IN IF ~link.active THEN st
       ELSE [st EXCEPT
               !.links[link_idx].room_status =
                   IF st.wander_threshold > 0
                   THEN link.wander * link.wander_sensitivity
                            > st.wander_threshold * SensScale
                   ELSE FALSE,
               !.links[link_idx].human_status =
                   IF st.jitter_threshold > 0
                   THEN link.jitter * link.jitter_sensitivity
                            > st.jitter_threshold * SensScale
                   ELSE FALSE]

\* LinkAlive without the age test
LinkAliveNoTimeout(link, now) == link.active

\* the liveness test of fuse_detection_results' loop:
\* links[i].active && (now - links[i].last_update) < LINK_TIMEOUT_MS
LinkAlive(link, now) ==
    link.active /\ Lt32(Sub32(now, link.last_update), U32(LINK_TIMEOUT_MS))

ZeroCounts == [active_count |-> 0, detection_count |-> 0, motion_count |-> 0]

\* a variant of fuse_link that re-derives the flags of every live link
FuseLinkRecalcAll(p, i, now) ==
    IF LinkAlive(p.st.links[i], now)
    THEN LET st1 == recalculate_link_status(p.st, i)
             l   == st1.links[i]
         IN [st  |-> st1,
             cnt |-> [active_count |-> p.cnt.active_count + 1,
                      detection_count |-> p.cnt.detection_count
                          + (IF l.room_status \/ l.human_status THEN 1 ELSE 0),
                      motion_count |-> p.cnt.motion_count
                          + (IF l.human_status THEN 1 ELSE 0)]]
    ELSE [st  |-> [p.st EXCEPT !.links[i].active = FALSE],
          cnt |-> p.cnt]

\* one iteration (index i) of the loop of fuse_detection_results:
\* p = [st, cnt], the state and the pass's three local counters
fuse_link(p, i, now) ==
    IF LinkAlive(p.st.links[i], now)
    THEN LET st1 == IF i = 0 THEN recalculate_link_status(p.st, i) ELSE p.st
             l   == st1.links[i]
         IN [st  |-> st1,
             cnt |-> [active_count |-> p.cnt.active_count + 1,
                      detection_count |-> p.cnt.detection_count
                          + (IF l.room_status \/ l.human_status THEN 1 ELSE 0),
                      motion_count |-> p.cnt.motion_count
                          + (IF l.human_status THEN 1 ELSE 0)]]
    ELSE [st  |-> [p.st EXCEPT !.links[i].active = FALSE],
          cnt |-> p.cnt]

\* the whole loop, i = 0, 1, 2
fuse_loop(st, now) ==
    fuse_link(fuse_link(fuse_link([st |-> st, cnt |-> ZeroCounts], 0, now), 1, now), 2, now)

\* min_detection without the adaptation to the number of active links
MinDetectionFixed(active_count) == 2

\* int min_detection = (active_count >= 2) ? 2 : 1
min_detection(active_count) == IF active_count >= 2 THEN 2 ELSE 1

\* g_state.room_status = (detection_count >= min_detection)
write_room_status(st, cnt) ==
    [st EXCEPT !.room_status =
        cnt.detection_count >= min_detection(cnt.active_count)]

\* a variant of write_human_status for which one link with motion is enough
WriteHumanAnyMotion(st, cnt) ==
    [st EXCEPT !.human_status = st.room_status /\ cnt.motion_count >= 1]

\* g_state.human_status = g_state.room_status && (motion_count >= min_detection)
write_human_status(st, cnt) ==
    [st EXCEPT !.human_status =
        st.room_status /\ cnt.motion_count >= min_detection(cnt.active_count)]

\* a variant of fuse_detection_results that writes human_status before
\* room_status
FuseHumanFirst(st, now) ==
    LET p == fuse_loop(st, now)
    IN [st  |-> write_room_status(write_human_status(p.st, p.cnt), p.cnt),
        cnt |-> p.cnt, now |-> now, ran |-> TRUE]

\* fuse_detection_results() run without interruption, the clock reading now:
\* the state it leaves and the values its counters had
fuse_detection_results(st, now) ==
    LET p == fuse_loop(st, now)
    IN [st  |-> write_human_status(write_room_status(p.st, p.cnt), p.cnt),
        cnt |-> p.cnt, now |-> now, ran |-> TRUE]

\* a handler run that did not reach fuse_detection_results
NoPass(st) == [st |-> st, cnt |-> ZeroCounts, now |-> U32(0), ran |-> FALSE]

\* ------------------------------------------------------------ master: handlers
\* wifi_radar_cb (master), lines 406-408: store the sample, count it
radar_store(st, w, j) ==
    [st EXCEPT
        !.wander_buff[Mod32(st.buff_count, RADAR_BUFF_MAX_LEN)] = w,
        !.jitter_buff[Mod32(st.buff_count, RADAR_BUFF_MAX_LEN)] = j,
        !.buff_count = Add32(st.buff_count, U32(1))]

\* wifi_radar_cb (master), lines 413-421: smooth and update link 0
radar_update_link(st, now) ==
    [st EXCEPT
        !.links[0].active = TRUE,
        !.links[0].wander = trimmean(BuffSeq(st.wander_buff)),
        !.links[0].jitter = median(BuffSeq(st.jitter_buff)),
        !.links[0].last_update = now]

\* a variant of wifi_radar_cb without the test of line 410
RadarNoWarmup(st, w, j, now) ==
    fuse_detection_results(radar_update_link(radar_store(st, w, j), now), now)

\* wifi_radar_cb (master) run without interruption
wifi_radar_cb(st, w, j, now) ==
    LET s1 == radar_store(st, w, j)
    IN IF Lt32(s1.buff_count, U32(BUFF_MIN_SIZE)) THEN NoPass(s1)
       ELSE fuse_detection_results(radar_update_link(s1, now), now)

\* ------------------------------------------------------------ wire format
\* A message is the sequence of its bytes; data[k] of the C code is Byte(data, k).
\* The four bytes of a float are those of its fixed-point number in two's
\* complement, least significant byte first: different numbers have
\* different bytes, as different floats do.
Byte(data, k) == data[k + 1]
Bytes(data, k, n) == SubSeq(data, k + 1, k + n)

F32Bytes(v) ==
    <<v % 256, (v \div 256) % 256, (v \div 65536) % 256, (v \div 16777216) % 256>>
F32FromBytes(b) ==
    b[1] + (256 * b[2]) + (65536 * b[3])
    + (16777216 * (IF b[4] >= 128 THEN b[4] - 256 ELSE b[4]))
U32Bytes(a) == <<a[2] % 256, a[2] \div 256, a[1] % 256, a[1] \div 256>>
U32FromBytes(b) == <<b[3] + (256 * b[4]), b[1] + (256 * b[2])>>
I8Byte(r) == r % 256
I8FromByte(b) == IF b >= 128 THEN b - 256 ELSE b
BoolByte(f) == IF f THEN 1 ELSE 0

\* a DetectionReport as send_result_to_master builds it (17 bytes)
encode_report(node, room, human, wander, jitter, rssi, ts) ==
    <<1, node, BoolByte(room), BoolByte(human)>>
    \o F32Bytes(wander) \o F32Bytes(jitter) \o <<I8Byte(rssi)>> \o U32Bytes(ts)

\* slave_report_t (packed): the fields of a received report by their offsets
report_msg_type(data) == Byte(data, 0)
report_node_id(data) == Byte(data, 1)
report_room_status(data) == Byte(data, 2)
report_human_status(data) == Byte(data, 3)
\* a variant of report_wander that reads the four bytes one offset later
ReportWanderShifted(data) == F32FromBytes(Bytes(data, 5, 4))
report_wander(data) == F32FromBytes(Bytes(data, 4, 4))
report_jitter(data) == F32FromBytes(Bytes(data, 8, 4))
report_rssi(data) == I8FromByte(Byte(data, 12))
report_timestamp(data) == U32FromBytes(Bytes(data, 13, 4))

\* a variant of IsReport that asks only for the bytes the master reads (up
\* to rssi at offset 12)
IsReportUpToRssi(msg) ==
    /\ Len(msg) >= 13
    /\ report_msg_type(msg) = 1
    /\ report_node_id(msg) >= 1
    /\ report_node_id(msg) <= MAX_SLAVE_NODES

\* the test of espnow_recv_cb (master) that admits a message as a report
IsReport(msg) ==
    /\ Len(msg) >= REPORT_SIZE
    /\ report_msg_type(msg) = 1
    /\ report_node_id(msg) >= 1
    /\ report_node_id(msg) <= MAX_SLAVE_NODES

\* a variant of recv_store that takes last_update from the report's
\* timestamp field
RecvStoreReportTime(st, msg, now) ==
    [st EXCEPT
        !.links[report_node_id(msg)].active = TRUE,
        !.links[report_node_id(msg)].room_status = (report_room_status(msg) # 0),
        !.links[report_node_id(msg)].human_status = (report_human_status(msg) # 0),
        !.links[report_node_id(msg)].wander = report_wander(msg),
        !.links[report_node_id(msg)].jitter = report_jitter(msg),
        !.links[report_node_id(msg)].rssi = report_rssi(msg),
        !.links[report_node_id(msg)].last_update = report_timestamp(msg)]

\* a variant of recv_store that derives the link's two flags at the master,
\* from the reported wander and jitter
RecvStoreRederives(st, msg, now) ==
    recalculate_link_status(
        [st EXCEPT
            !.links[report_node_id(msg)].active = TRUE,
            !.links[report_node_id(msg)].room_status = (report_room_status(msg) # 0),
            !.links[report_node_id(msg)].human_status = (report_human_status(msg) # 0),
            !.links[report_node_id(msg)].wander = report_wander(msg),
            !.links[report_node_id(msg)].jitter = report_jitter(msg),
            !.links[report_node_id(msg)].rssi = report_rssi(msg),
            !.links[report_node_id(msg)].last_update = now],
        report_node_id(msg))

\* espnow_recv_cb (master), lines 441-447: copy the report into its link
recv_store(st, msg, now) ==
    [st EXCEPT
        !.links[report_node_id(msg)].active = TRUE,
        !.links[report_node_id(msg)].room_status = (report_room_status(msg) # 0),
        !.links[report_node_id(msg)].human_status = (report_human_status(msg) # 0),
        !.links[report_node_id(msg)].wander = report_wander(msg),
        !.links[report_node_id(msg)].jitter = report_jitter(msg),
        !.links[report_node_id(msg)].rssi = report_rssi(msg),
        !.links[report_node_id(msg)].last_update = now]

\* espnow_recv_cb (master) run without interruption
espnow_recv_cb(st, msg, now) ==
    IF IsReport(msg)
    THEN fuse_detection_results(recv_store(st, msg, now), now)
    ELSE NoPass(st)

\* the status fields formatted by http_get_status / ws_broadcast_task
StatusPair(st) ==
    [room |-> st.room_status, moving |-> st.human_status,
     calibrating |-> st.calibrating]

\* a variant of mutex_available under which the semaphore never blocks
MutexNeverBlocks(holder) == TRUE

\* xSemaphoreTake(g_state_mutex, portMAX_DELAY) returns once nobody holds it
mutex_available(holder) == holder = "free"

\* ------------------------------------------------------------ master: calibration
\* a one-byte command as broadcast_calibration_cmd sends it
CmdMsg(cmd) == <<cmd>>
CMD_CAL_START == 16
CMD_CAL_STOP == 17
CMD_SET_THRESHOLDS == 18
CMD_SET_SENSITIVITY == 19
CMD_LAST == 31

\* a handler's outcome: the state, the accumulator, the store, the messages sent
Outcome(st, tr, store, tx) == [st |-> st, train |-> tr, nvs |-> store, tx |-> tx]

\* a variant of finish_calibration that saves the settings before it stops
\* the accumulator
FinishSaveFirst(st, tr, store, open_ok) ==
    IF ~st.calibrating THEN Outcome(st, tr, store, <<>>)
    ELSE LET s1 == [st EXCEPT !.wander_threshold = tr.out[1],
                              !.jitter_threshold = tr.out[2],
                              !.calibrating = FALSE]
         IN Outcome(s1, [tr EXCEPT !.on = FALSE],
                    nvs_save_settings(st, store, open_ok),
                    <<CmdMsg(CMD_CAL_STOP)>>)

\* a variant of finish_calibration that also broadcasts the two thresholds
FinishAndSendThresholds(st, tr, store, open_ok) ==
    IF ~st.calibrating THEN Outcome(st, tr, store, <<>>)
    ELSE LET s1 == [st EXCEPT !.wander_threshold = tr.out[1],
                              !.jitter_threshold = tr.out[2],
                              !.calibrating = FALSE]
         IN Outcome(s1, [tr EXCEPT !.on = FALSE],
                    nvs_save_settings(s1, store, open_ok),
                    <<CmdMsg(CMD_CAL_STOP),
                      <<CMD_SET_THRESHOLDS>> \o F32Bytes(s1.wander_threshold)
                                            \o F32Bytes(s1.jitter_threshold)>>)

\* a variant of finish_calibration that does not test st.calibrating
FinishUnguarded(st, tr, store, open_ok) ==
    LET s1 == [st EXCEPT !.wander_threshold = tr.out[1],
                         !.jitter_threshold = tr.out[2],
                         !.calibrating = FALSE]
    IN Outcome(s1, [tr EXCEPT !.on = FALSE],
               nvs_save_settings(s1, store, open_ok),
               <<CmdMsg(CMD_CAL_STOP)>>)

\* finish_calibration(); open_ok is the result of nvs_open in nvs_save_settings
finish_calibration(st, tr, store, open_ok) ==
    IF ~st.calibrating THEN Outcome(st, tr, store, <<>>)
    ELSE LET s1 == [st EXCEPT !.wander_threshold = tr.out[1],
                              !.jitter_threshold = tr.out[2],
                              !.calibrating = FALSE]
         IN Outcome(s1, [tr EXCEPT !.on = FALSE],
                    nvs_save_settings(s1, store, open_ok),
                    <<CmdMsg(CMD_CAL_STOP)>>)

\* http_post_calibrate: body is what the request body holds ("start",
\* "stop", "other", or "none" for no body); out is what the accumulator
\* started here will emit when it is stopped
http_post_calibrate(st, tr, store, body, now, out, open_ok) ==
    IF body = "start"
    THEN Outcome([st EXCEPT !.calibrating = TRUE,
                            !.calibration_start_time = now],
                 [on |-> TRUE, out |-> out], store,
                 <<CmdMsg(CMD_CAL_START)>>)
    ELSE IF body = "stop"
    THEN finish_calibration(st, tr, store, open_ok)
    ELSE Outcome(st, tr, store, <<>>)

\* the auto-stop test of ws_broadcast_task:
\* elapsed = now - calibration_start_time; elapsed >= calibration_duration_ms
CalibrationExpiredLate(st, now) ==
    Lt32(st.calibration_duration_ms, Sub32(now, st.calibration_start_time))

CalibrationExpired(st, now) ==
    ~Lt32(Sub32(now, st.calibration_start_time), st.calibration_duration_ms)

\* one iteration of ws_broadcast_task up to the snapshot (lines 805-812)
ws_check_calibration(st, tr, store, now, open_ok) ==
    IF st.calibrating /\ CalibrationExpired(st, now)
    THEN finish_calibration(st, tr, store, open_ok)
    ELSE Outcome(st, tr, store, <<>>)

\* ------------------------------------------------------------ master: sensitivity
\* the request as http_post_sensitivity parses it: has_body is ret > 0;
\* link_idx and the two values keep -1 when the body lacks them
Request(has_body, link_idx, wander_sens, jitter_sens) ==
    [has_body |-> has_body, link_idx |-> link_idx,
     wander_sens |-> wander_sens, jitter_sens |-> jitter_sens]
NoRequest == Request(FALSE, -1, -SensScale, -SensScale)

\* a variant of accept_sensitivity that clamps the value into the range
ClampSensitivity(old, v) ==
    IF v < SENS_MIN THEN SENS_MIN ELSE IF v > SENS_MAX THEN SENS_MAX ELSE v

\* lines 643-648: a value replaces the stored one iff it is in the range
accept_sensitivity(old, v) ==
    IF v >= SENS_MIN /\ v <= SENS_MAX THEN v ELSE old

\* lines 652-656: the ten bytes of the SetSensitivity command
encode_sensitivity(target, wander_sens, jitter_sens) ==
    <<CMD_SET_SENSITIVITY, target % 256>>
    \o F32Bytes(wander_sens) \o F32Bytes(jitter_sens)

\* http_post_sensitivity; open_ok is the result of nvs_open in nvs_save_settings
http_post_sensitivity(st, tr, store, req, open_ok) ==
    IF ~req.has_body THEN Outcome(st, tr, store, <<>>)
    ELSE IF req.link_idx < 0 \/ req.link_idx > 2 THEN Outcome(st, tr, store, <<>>)
    ELSE LET l == req.link_idx
             s1 == [st EXCEPT
                      !.links[l].wander_sensitivity =
                          accept_sensitivity(@, req.wander_sens),
                      !.links[l].jitter_sensitivity =
                          accept_sensitivity(@, req.jitter_sens)]
         IN Outcome(s1, tr, nvs_save_settings(s1, store, open_ok),
                    IF l > 0
                    THEN <<encode_sensitivity(l, s1.links[l].wander_sensitivity,
                                              s1.links[l].jitter_sensitivity)>>
                    ELSE <<>>)

\* ------------------------------------------------------------ slave
\* The slave's trimmean and median are line for line those of the master.
S_DEF_WANDER_TH == 1000
S_DEF_JITTER_TH == 100
CONFIG_SLAVE_NODE_ID == 2
SEND_INTERVAL_MS == 100
JITTER_FLOOR == 20
BUFF_OUTLIERS_NUM == 2

\* static detection_state_t g_detect = { ... }
GDetectDefault ==
    [wander_buff |-> [k \in Slots |-> 0],
     jitter_buff |-> [k \in Slots |-> 0],
     buff_count |-> U32(0),
     wander_threshold |-> S_DEF_WANDER_TH,
     jitter_threshold |-> S_DEF_JITTER_TH,
     wander_sensitivity |-> DEF_WANDER_SENS,
     jitter_sensitivity |-> DEF_JITTER_SENS,
     room_status |-> FALSE,
     human_status |-> FALSE,
     calibrating |-> FALSE]

\* nvs_save_settings (slave): what a successful save leaves in the store
SlaveStoreOf(d) ==
    [k \in {"wander_th", "jitter_th", "wander_sens", "jitter_sens"} |->
        IF k = "wander_th" THEN d.wander_threshold
        ELSE IF k = "jitter_th" THEN d.jitter_threshold
        ELSE IF k = "wander_sens" THEN d.wander_sensitivity
        ELSE d.jitter_sensitivity]

\* nvs_save_settings (slave); open_ok is the result of nvs_open
slave_nvs_save_settings(d, store, open_ok) ==
    IF open_ok THEN SlaveStoreOf(d) ELSE store

\* nvs_load_settings (slave)
slave_nvs_load_settings(d, store) ==
    IF store = EmptyStore THEN d
    ELSE [d EXCEPT
            !.wander_threshold = Lookup(store, "wander_th", d.wander_threshold),
            !.jitter_threshold = Lookup(store, "jitter_th", d.jitter_threshold),
            !.wander_sensitivity = Lookup(store, "wander_sens", d.wander_sensitivity),
            !.jitter_sensitivity = Lookup(store, "jitter_sens", d.jitter_sensitivity)]

\* wifi_radar_cb (slave), lines 328-330
slave_radar_store(d, w, j) ==
    [d EXCEPT
        !.wander_buff[Mod32(d.buff_count, RADAR_BUFF_MAX_LEN)] = w,
        !.jitter_buff[Mod32(d.buff_count, RADAR_BUFF_MAX_LEN)] = j,
        !.buff_count = Add32(d.buff_count, U32(1))]

\* line 345
has_valid_threshold(d) == d.wander_threshold > EPSILON

\* lines 348-349: the test that counts towards someone_count
someone_hit(d, wander_average) ==
    /\ has_valid_threshold(d)
    /\ wander_average * d.wander_sensitivity > d.wander_threshold * SensScale

\* a variant of move_hit without the floor of 0.0002 on the raw sample
MoveHitNoFloor(d, i, jitter_median) ==
    LET index == Mod32(Sub32(Sub32(d.buff_count, U32(1)), U32(i)),
                       RADAR_BUFF_MAX_LEN)
        jit   == d.jitter_buff[index]
    IN /\ d.jitter_threshold > EPSILON
       /\ \/ jit * d.jitter_sensitivity > d.jitter_threshold * SensScale
          \/ jit * d.jitter_sensitivity > jitter_median * SensScale

\* lines 353-357: the test of iteration i that counts towards move_count
move_hit(d, i, jitter_median) ==
    LET index == Mod32(Sub32(Sub32(d.buff_count, U32(1)), U32(i)),
                       RADAR_BUFF_MAX_LEN)
        jit   == d.jitter_buff[index]
    IN /\ d.jitter_threshold > EPSILON
       /\ \/ jit * d.jitter_sensitivity > d.jitter_threshold * SensScale
          \/ /\ jit * d.jitter_sensitivity > jitter_median * SensScale
             /\ jit > JITTER_FLOOR

\* lines 341-364: the two counts and the status they give
slave_detect(d) ==
    LET wander_average == trimmean(BuffSeq(d.wander_buff))
        jitter_median  == median(BuffSeq(d.jitter_buff))
        window         == 0..(BUFF_MIN_SIZE - 1)
        someone_count  ==
            Cardinality({i \in window : someone_hit(d, wander_average)})
        move_count     ==
            Cardinality({i \in window : move_hit(d, i, jitter_median)})
    IN [d EXCEPT
          !.room_status = has_valid_threshold(d) /\ someone_count >= 1,
          !.human_status = d.jitter_threshold > EPSILON
                           /\ move_count >= BUFF_OUTLIERS_NUM]

\* send_result_to_master(wander_average, jitter_median, 0) at time now
send_result_to_master(d, node, now) ==
    encode_report(node, d.room_status, d.human_status,
                  trimmean(BuffSeq(d.wander_buff)),
                  median(BuffSeq(d.jitter_buff)), 0, now)

\* what a run of a slave handler leaves behind
SlaveOutcome(d, store, tr, tx, last_send) ==
    [d |-> d, nvs |-> store, train |-> tr, tx |-> tx, last_send |-> last_send]

\* a variant of slave_wifi_radar_cb that ends Training by itself at the first
\* sample it evaluates while calibrating
SlaveRadarLocalStop(d, store, tr, last_send, node, w, j, now) ==
    LET d1 == slave_radar_store(d, w, j)
    IN IF Lt32(d1.buff_count, U32(BUFF_MIN_SIZE))
       THEN SlaveOutcome(d1, store, tr, <<>>, last_send)
       ELSE LET d2 == slave_detect(d1)
            IN IF d2.calibrating
               THEN SlaveOutcome([d2 EXCEPT !.calibrating = FALSE], store,
                                 [on |-> FALSE], <<>>, last_send)
               ELSE IF Ge32(Sub32(now, last_send), U32(SEND_INTERVAL_MS))
               THEN SlaveOutcome(d2, store, tr,
                                 <<send_result_to_master(d2, node, now)>>, now)
               ELSE SlaveOutcome(d2, store, tr, <<>>, last_send)

\* a variant of slave_wifi_radar_cb that goes on to report while calibrating
SlaveRadarReportsInTraining(d, store, tr, last_send, node, w, j, now) ==
    LET d1 == slave_radar_store(d, w, j)
    IN IF Lt32(d1.buff_count, U32(BUFF_MIN_SIZE))
       THEN SlaveOutcome(d1, store, tr, <<>>, last_send)
       ELSE LET d2 == slave_detect(d1)
            IN IF Ge32(Sub32(now, last_send), U32(SEND_INTERVAL_MS))
               THEN SlaveOutcome(d2, store, tr,
                                 <<send_result_to_master(d2, node, now)>>, now)
               ELSE SlaveOutcome(d2, store, tr, <<>>, last_send)

\* wifi_radar_cb (slave)
slave_wifi_radar_cb(d, store, tr, last_send, node, w, j, now) ==
    LET d1 == slave_radar_store(d, w, j)
    IN IF Lt32(d1.buff_count, U32(BUFF_MIN_SIZE))
       THEN SlaveOutcome(d1, store, tr, <<>>, last_send)
       ELSE LET d2 == slave_detect(d1)
            IN IF d2.calibrating
               THEN SlaveOutcome(d2, store, tr, <<>>, last_send)
               ELSE IF Ge32(Sub32(now, last_send), U32(SEND_INTERVAL_MS))
               THEN SlaveOutcome(d2, store, tr,
                                 <<send_result_to_master(d2, node, now)>>, now)
               ELSE SlaveOutcome(d2, store, tr, <<>>, last_send)

\* a variant of slave_cmd that looks at the low four bits of the first byte
CmdLowNibble(data) == 16 + (Byte(data, 0) % 16)

\* line 395: uint8_t cmd = data[0]
slave_cmd(data) == Byte(data, 0)

\* a variant of sensitivity_addressed that takes every command as its own
AddressedToAll(data, node) == TRUE

\* line 433
sensitivity_addressed(data, node) == Byte(data, 1) = node

\* espnow_recv_cb (slave); out is the pair esp_radar_train_stop writes into
\* the two thresholds; open_ok is the result of nvs_open
slave_espnow_recv_cb(d, store, tr, last_send, node, data, out, open_ok) ==
    LET same == SlaveOutcome(d, store, tr, <<>>, last_send)
    IN IF Len(data) < 1 THEN same
       ELSE IF slave_cmd(data) < 16 \/ slave_cmd(data) > 31 THEN same
       ELSE IF slave_cmd(data) = CMD_CAL_START
       THEN SlaveOutcome([d EXCEPT !.calibrating = TRUE], store,
                         [on |-> TRUE], <<>>, last_send)
       ELSE IF slave_cmd(data) = CMD_CAL_STOP
       THEN LET d1 == [d EXCEPT !.wander_threshold = out[1],
                                !.jitter_threshold = out[2],
                                !.calibrating = FALSE]
            IN SlaveOutcome(d1, slave_nvs_save_settings(d1, store, open_ok),
                            [on |-> FALSE], <<>>, last_send)
       ELSE IF slave_cmd(data) = CMD_SET_THRESHOLDS
       THEN IF Len(data) >= 9
            THEN SlaveOutcome(
                     [d EXCEPT
                        !.wander_threshold = F32FromBytes(Bytes(data, 1, 4)),
                        !.jitter_threshold = F32FromBytes(Bytes(data, 5, 4))],
                     store, tr, <<>>, last_send)
            ELSE same
       ELSE IF slave_cmd(data) = CMD_SET_SENSITIVITY
       THEN IF Len(data) >= 10 /\ sensitivity_addressed(data, node)
            THEN LET d1 == [d EXCEPT
                              !.wander_sensitivity =
                                  F32FromBytes(Bytes(data, 2, 4)),
                              !.jitter_sensitivity =
                                  F32FromBytes(Bytes(data, 6, 4))]
                 IN SlaveOutcome(d1, slave_nvs_save_settings(d1, store, open_ok),
                                 tr, <<>>, last_send)
            ELSE same
       ELSE same

\* ------------------------------------------------------------ inputs
\* (wander, jitter) pairs handed over by the sensing library
WanderHi == 13 * 1000
JitterHi == 2 * 100
Samples == {<<0, 0>>, <<WanderHi, JitterHi>>}

ReportWander == 2 * 1000
ReportJitter == 5 * 10
\* a DetectionReport with the values the sensing library is seen to give
ReportMsg(node, room, human) ==
    encode_report(node, room, human, ReportWander, ReportJitter, 0, U32(0))
\* messages the master's receive callback may be handed: the reports of the
\* two slaves, and messages it must not take for one (too short, another
\* type, a node id outside 1..MAX_SLAVE_NODES)
Messages ==
    {ReportMsg(n, r, h) : n \in 1..MAX_SLAVE_NODES, r \in BOOLEAN, h \in BOOLEAN}
    \cup {SubSeq(ReportMsg(1, TRUE, TRUE), 1, REPORT_SIZE - 1),
          [ReportMsg(1, TRUE, TRUE) EXCEPT ![1] = 16],
          ReportMsg(0, TRUE, TRUE),
          ReportMsg(MAX_SLAVE_NODES + 1, TRUE, TRUE)}

StoredWanderTh == 10 * 10
StoredWanderThSmall == 10 \div 2
\* threshold pairs the training accumulator may emit
TrainOut == {<<StoredWanderTh, M_DEF_JITTER_TH>>, <<StoredWanderThSmall, 0>>}
Bodies == {"start", "stop", "other", "none"}

\* stores a previous run may have left behind
BootStores ==
    {EmptyStore,
     MasterStoreOf([GStateDefault EXCEPT !.wander_threshold = StoredWanderTh]),
     MasterStoreOf([GStateDefault EXCEPT !.wander_threshold = StoredWanderThSmall])}

\* a callback task outside fuse_detection_results
TaskIdle == [pc |-> "idle", now |-> U32(0), i |-> 0, cnt |-> ZeroCounts]
NoPassYet == [cnt |-> ZeroCounts, now |-> U32(0)]
TrainIdle == [on |-> FALSE, out |-> <<0, 0>>]
SlaveTrainIdle == [on |-> FALSE]
\* no array has been handed to trimmean or median
NoStat == [input |-> <<>>, array |-> <<>>, trimmean |-> 0, median |-> 0]
\* no calibration command has been broadcast, no stop action has run
NoCalLog == [starts |-> 0, stops |-> 0, train_stop |-> 0, th_write |-> 0,
             cmd_stop |-> 0, trigger |-> "boot"]

\* ------------------------------------------------------------ master: Spec
\* Every handler runs to completion before the next one starts.
InitSlaveOff ==
    /\ g_detect = GDetectDefault
    /\ g_node_id = CONFIG_SLAVE_NODE_ID
    /\ s_nvs = EmptyStore
    /\ s_tx = <<>>
    /\ s_last_send_time = U32(0)
    /\ s_train = SlaveTrainIdle
    /\ s_rx = <<>>

InitMaster ==
    /\ nvs \in BootStores
    /\ g_state = nvs_load_settings(GStateDefault, nvs)
    /\ m_tx = <<>>
    /\ clock = U32(0)
    /\ g_state_mutex = "free"
    /\ task = [t \in {"radar", "wifi"} |-> TaskIdle]
    /\ last_pass = NoPassYet
    /\ observed = StatusPair(g_state)
    /\ train = TrainIdle
    /\ http_req = NoRequest

\* the specification itself fixes which handlers run
InitRig ==
    /\ bench = "none"
    /\ stat = NoStat
    /\ cal_log = NoCalLog
    /\ s_cal_since = U32(0)
    /\ twin = GStateDefault

BootMaster == InitMaster /\ InitSlaveOff

Init == BootMaster /\ InitRig

\* Bound on the environment: within one run the signal stays on one level
\* (every sample equals the one before it).
SteadySignal(st, s) ==
    \/ st.buff_count = U32(0)
    \/ LET last == Mod32(Sub32(st.buff_count, U32(1)), RADAR_BUFF_MAX_LEN)
       IN s = <<st.wander_buff[last], st.jitter_buff[last]>>

\* the record of the pass of a handler run r, if it ran one
PassRecord(r, old) == IF r.ran THEN [cnt |-> r.cnt, now |-> r.now] ELSE old

\* the sensing library hands a sample, one of samples, to wifi_radar_cb; max
\* bounds the sample count
SampleWith(samples, max) ==
    /\ Lt32(g_state.buff_count, U32(max))
    /\ \E s \in samples :
       \E r \in {wifi_radar_cb(g_state, s[1], s[2], clock)} :
             /\ g_state' = r.st
             /\ last_pass' = PassRecord(r, last_pass)
    /\ m_tx' = <<>>
    /\ UNCHANGED <<nvs, clock, g_state_mutex, task, observed, train, http_req>>
    /\ UNCHANGED <<slaveVars, rigVars>>

Sample == SampleWith({s \in Samples : SteadySignal(g_state, s)}, MaxSamples)

\* ESP-NOW hands a received message to espnow_recv_cb
Report ==
    /\ \E msg \in Messages :
       \E r \in {espnow_recv_cb(g_state, msg, clock)} :
             /\ g_state' = r.st
             /\ last_pass' = PassRecord(r, last_pass)
    /\ m_tx' = <<>>
    /\ UNCHANGED <<nvs, clock, g_state_mutex, task, observed, train, http_req>>
    /\ UNCHANGED <<slaveVars, rigVars>>

\* time passes: the clock moves on by q, up to max
AdvanceBy(q, max) ==
    /\ Lt32(clock, U32(max))
    /\ clock' = Add32(clock, U32(q))
    /\ UNCHANGED masterVars
    /\ UNCHANGED <<slaveVars, rigVars>>

Advance == AdvanceBy(TimeQuantum, MaxTicks * TimeQuantum)

Next == Sample \/ Report \/ Advance

Spec == Init /\ [][Next]_vars

\* ------------------------------------------------------------ master: SpecCal
\* The calibration controller: the HTTP calibrate action, the timer task and
\* local samples; no slave reports.
MaxCalTicks == 2
CalQuantum == DEFAULT_CAL_DURATION_MS \div 2

\* Bound on the horizon: a calibration is started only while the clock can
\* still reach its end.
CanFinishInTime ==
    ~Lt32(U32(MaxCalTicks * CalQuantum - DEFAULT_CAL_DURATION_MS), clock)

\* POST /api/calibrate: bodies are the request bodies, outs the pairs the
\* accumulator may emit, opens the results nvs_open may give
HttpPostCalibrateWith(bodies, outs, opens) ==
    /\ \E body \in bodies, out \in outs, open_ok \in opens :
          /\ body = "start" => CanFinishInTime
          /\ \E r \in {http_post_calibrate(g_state, train, nvs, body, clock,
                                            out, open_ok)} :
                /\ g_state' = r.st
                /\ train' = r.train
                /\ nvs' = r.nvs
                /\ m_tx' = r.tx
    /\ UNCHANGED <<clock, g_state_mutex, task, last_pass, observed, http_req>>
    /\ UNCHANGED <<slaveVars, rigVars>>

HttpPostCalibrate == HttpPostCalibrateWith(Bodies, TrainOut, BOOLEAN)

\* one iteration of the loop of ws_broadcast_task: the auto-stop check, then
\* the status formatted under the mutex
WsTickWith(opens) ==
    /\ mutex_available(g_state_mutex)
    /\ \E open_ok \in opens :
       \E r \in {ws_check_calibration(g_state, train, nvs, clock, open_ok)} :
             /\ g_state' = r.st
             /\ train' = r.train
             /\ nvs' = r.nvs
             /\ m_tx' = r.tx
             /\ observed' = StatusPair(r.st)
    /\ UNCHANGED <<clock, g_state_mutex, task, last_pass, http_req>>
    /\ UNCHANGED <<slaveVars, rigVars>>

WsTick == WsTickWith(BOOLEAN)

AdvanceCal == AdvanceBy(CalQuantum, MaxCalTicks * CalQuantum)

NextCal == Sample \/ HttpPostCalibrate \/ WsTick \/ AdvanceCal

SpecCal == Init /\ [][NextCal]_vars

\* the timer task keeps running and time keeps passing
SpecCalFair == SpecCal /\ WF_vars(WsTick) /\ WF_vars(AdvanceCal)

\* ------------------------------------------------------------ master: SpecSens
\* The sensitivity endpoint alone, from the built-in defaults.
\* link indices: missing or negative, the master's own link, a slave's link,
\* one past the last link
LinkInputs == {-1, 0, NUM_LINKS - 1, NUM_LINKS}
\* sensitivity values: missing, just below the range, its two ends, just above
SensInputs == {-SensScale, SENS_MIN - 1, SENS_MIN, SENS_MAX, SENS_MAX + 1}
Requests ==
    {Request(TRUE, l, w, j) : l \in LinkInputs, w \in SensInputs, j \in SensInputs}
    \cup {NoRequest}

BootSens ==
    /\ InitMaster
    /\ nvs = EmptyStore
    /\ InitSlaveOff

InitSens == BootSens /\ InitRig

\* POST /api/sensitivity (an empty body is answered with the stored values);
\* reqs are the requests, opens the results nvs_open may give
HttpPostSensitivityWith(reqs, opens) ==
    /\ \E req \in reqs, open_ok \in opens :
       \E r \in {http_post_sensitivity(g_state, train, nvs, req, open_ok)} :
             /\ g_state' = r.st
             /\ nvs' = r.nvs
             /\ m_tx' = r.tx
             /\ http_req' = req
    /\ UNCHANGED <<clock, g_state_mutex, task, last_pass, observed, train>>
    /\ UNCHANGED <<slaveVars, rigVars>>

\* Bound on the environment: the store opens.
HttpPostSensitivity == HttpPostSensitivityWith(Requests, {TRUE})

NextSens == HttpPostSensitivity

SpecSens == InitSens /\ [][NextSens]_vars

\* ------------------------------------------------------------ slave: SpecSlave
\* One slave: its sample callback, its command handler, and time.
MaxSlaveTicks == 1
SlaveQuantum == SEND_INTERVAL_MS

\* node ids a slave is flashed or provisioned with
SlaveNodeIds == 1..MAX_SLAVE_NODES
\* threshold and sensitivity pairs a command payload may carry
PayloadThresholds == <<5 * 10, 5 * 10>>
PayloadSens == {<<SENS_MIN, SENS_MAX>>, <<SENS_MAX + 1, SENS_MIN - 1>>}
encode_thresholds(wander_th, jitter_th) ==
    <<CMD_SET_THRESHOLDS>> \o F32Bytes(wander_th) \o F32Bytes(jitter_th)
\* messages the slave's receive callback may be handed: the four commands,
\* commands cut short, opcodes without a handler, first bytes just outside
\* the command range, a report of another slave, an empty message
SlaveMessages ==
    {CmdMsg(CMD_CAL_START), CmdMsg(CMD_CAL_STOP),
     encode_thresholds(PayloadThresholds[1], PayloadThresholds[2]),
     SubSeq(encode_thresholds(PayloadThresholds[1], PayloadThresholds[2]), 1, 8),
     SubSeq(encode_sensitivity(MAX_SLAVE_NODES, SENS_MIN, SENS_MAX), 1, 9),
     CmdMsg(CMD_SET_SENSITIVITY + 1), CmdMsg(CMD_LAST),
     CmdMsg(CMD_CAL_START - 1), CmdMsg(CMD_LAST + 1),
     ReportMsg(1, TRUE, TRUE),
     <<>>}
    \cup {encode_sensitivity(t, p[1], p[2]) : t \in SlaveNodeIds, p \in PayloadSens}

BootSlave ==
    /\ InitMaster
    /\ nvs = EmptyStore
    /\ s_nvs = EmptyStore
    /\ g_detect = slave_nvs_load_settings(GDetectDefault, s_nvs)
    /\ g_node_id \in SlaveNodeIds
    /\ s_tx = <<>>
    /\ s_last_send_time = U32(0)
    /\ s_train = SlaveTrainIdle
    /\ s_rx = <<>>

InitSlave == BootSlave /\ InitRig

\* the sensing library hands a sample, one of samples, to the slave's
\* wifi_radar_cb; max bounds the sample count
SlaveSampleWith(samples, max) ==
    /\ Lt32(g_detect.buff_count, U32(max))
    /\ \E s \in samples :
       \E r \in {slave_wifi_radar_cb(g_detect, s_nvs, s_train,
                                      s_last_send_time, g_node_id,
                                      s[1], s[2], clock)} :
             /\ g_detect' = r.d
             /\ s_tx' = r.tx
             /\ s_last_send_time' = r.last_send
    /\ s_rx' = <<>>
    /\ UNCHANGED <<g_node_id, s_nvs, s_train, clock>>
    /\ UNCHANGED <<masterVars, rigVars>>

SlaveSample ==
    SlaveSampleWith({s \in Samples : SteadySignal(g_detect, s)}, MaxSamples)

\* the pairs esp_radar_train_stop may write while data is handled: it is
\* called for CalibrationStop only
TrainOutFor(data) ==
    IF Len(data) >= 1 /\ slave_cmd(data) = CMD_CAL_STOP
    THEN TrainOut
    ELSE {<<0, 0>>}

\* ESP-NOW hands a received message, one of msgs, to the slave's
\* espnow_recv_cb; opens are the results nvs_open may give
SlaveRecvWith(msgs, opens) ==
    /\ \E data \in msgs, open_ok \in opens :
       \E out \in TrainOutFor(data) :
       \E r \in {slave_espnow_recv_cb(g_detect, s_nvs, s_train,
                                        s_last_send_time, g_node_id,
                                        data, out, open_ok)} :
             /\ g_detect' = r.d
             /\ s_nvs' = r.nvs
             /\ s_train' = r.train
             /\ s_tx' = r.tx
             /\ s_rx' = data
    /\ UNCHANGED <<g_node_id, s_last_send_time, clock>>
    /\ UNCHANGED <<masterVars, rigVars>>

\* Bound on the environment: the store opens.
SlaveRecv == SlaveRecvWith(SlaveMessages, {TRUE})

AdvanceSlave == AdvanceBy(SlaveQuantum, MaxSlaveTicks * SlaveQuantum)

NextSlave == SlaveSample \/ SlaveRecv \/ AdvanceSlave

SpecSlave == InitSlave /\ [][NextSlave]_vars

\* ------------------------------------------------------------ master: SpecConc
\* The two callback tasks run their fusion passes step by step, interleaved
\* with each other and with the two presentation readers. The "radar" task
\* runs wifi_radar_cb, the "wifi" task runs espnow_recv_cb.
\* Bound on the environment: the runs are short enough for the clock to
\* stand still, so no link ages out.
Tasks == {"radar", "wifi"}
LastLink == NUM_LINKS - 1

\* reports handed to the receive callback in this specification
ConcMessages ==
    {ReportMsg(1, TRUE, TRUE), ReportMsg(1, FALSE, FALSE),
     SubSeq(ReportMsg(1, TRUE, TRUE), 1, REPORT_SIZE - 1)}

\* task t enters fuse_detection_results and reads the clock (line 353)
EnterPass(t) ==
    task' = [task EXCEPT ![t] = [pc |-> "loop", now |-> clock, i |-> 0,
                                 cnt |-> ZeroCounts]]

\* wifi_radar_cb up to the call of fuse_detection_results
RadarBegin ==
    /\ task["radar"].pc = "idle"
    /\ Lt32(g_state.buff_count, U32(MaxSamples))
    /\ \E s \in Samples :
          /\ SteadySignal(g_state, s)
          /\ LET s1 == radar_store(g_state, s[1], s[2])
             IN IF Lt32(s1.buff_count, U32(BUFF_MIN_SIZE))
                THEN g_state' = s1 /\ UNCHANGED task
                ELSE g_state' = radar_update_link(s1, clock) /\ EnterPass("radar")
    /\ m_tx' = <<>>
    /\ UNCHANGED <<nvs, clock, g_state_mutex, last_pass, observed, train, http_req>>
    /\ UNCHANGED <<slaveVars, rigVars>>

\* espnow_recv_cb up to the call of fuse_detection_results
WifiBegin ==
    /\ task["wifi"].pc = "idle"
    /\ \E msg \in ConcMessages :
          IF IsReport(msg)
          THEN g_state' = recv_store(g_state, msg, clock) /\ EnterPass("wifi")
          ELSE UNCHANGED <<g_state, task>>
    /\ m_tx' = <<>>
    /\ UNCHANGED <<nvs, clock, g_state_mutex, last_pass, observed, train, http_req>>
    /\ UNCHANGED <<slaveVars, rigVars>>

\* one iteration of the loop of fuse_detection_results (lines 358-381)
FuseStep(t) ==
    /\ task[t].pc = "loop"
    /\ LET p == fuse_link([st |-> g_state, cnt |-> task[t].cnt],
                          task[t].i, task[t].now)
       IN /\ g_state' = p.st
          /\ task' = [task EXCEPT
                         ![t].cnt = p.cnt,
                         ![t].i = @ + 1,
                         ![t].pc = IF task[t].i = LastLink THEN "take" ELSE "loop"]
    /\ UNCHANGED <<nvs, m_tx, clock, g_state_mutex, last_pass, observed, train,
                   http_req>>
    /\ UNCHANGED <<slaveVars, rigVars>>

\* xSemaphoreTake (line 383)
FuseTake(t) ==
    /\ task[t].pc = "take"
    /\ mutex_available(g_state_mutex)
    /\ g_state_mutex' = t
    /\ task' = [task EXCEPT ![t].pc = "room"]
    /\ UNCHANGED <<g_state, nvs, m_tx, clock, last_pass, observed, train, http_req>>
    /\ UNCHANGED <<slaveVars, rigVars>>

\* line 389
FuseWriteRoom(t) ==
    /\ task[t].pc = "room"
    /\ g_state' = write_room_status(g_state, task[t].cnt)
    /\ task' = [task EXCEPT ![t].pc = "human"]
    /\ UNCHANGED <<nvs, m_tx, clock, g_state_mutex, last_pass, observed, train,
                   http_req>>
    /\ UNCHANGED <<slaveVars, rigVars>>

\* line 392
FuseWriteHuman(t) ==
    /\ task[t].pc = "human"
    /\ g_state' = write_human_status(g_state, task[t].cnt)
    /\ task' = [task EXCEPT ![t].pc = "give"]
    /\ UNCHANGED <<nvs, m_tx, clock, g_state_mutex, last_pass, observed, train,
                   http_req>>
    /\ UNCHANGED <<slaveVars, rigVars>>

\* xSemaphoreGive (line 394) and the return to the caller
FuseGive(t) ==
    /\ task[t].pc = "give"
    /\ g_state_mutex' = "free"
    /\ last_pass' = [cnt |-> task[t].cnt, now |-> task[t].now]
    /\ task' = [task EXCEPT ![t] = TaskIdle]
    /\ UNCHANGED <<g_state, nvs, m_tx, clock, observed, train, http_req>>
    /\ UNCHANGED <<slaveVars, rigVars>>

\* GET /api/status: the status is formatted while the mutex is held
HttpGetStatus ==
    /\ mutex_available(g_state_mutex)
    /\ observed' = StatusPair(g_state)
    /\ UNCHANGED <<g_state, nvs, m_tx, clock, g_state_mutex, task, last_pass, train,
                   http_req>>
    /\ UNCHANGED <<slaveVars, rigVars>>

NextConc ==
    \/ RadarBegin
    \/ WifiBegin
    \/ \E t \in Tasks :
          FuseStep(t) \/ FuseTake(t) \/ FuseWriteRoom(t) \/ FuseWriteHuman(t)
          \/ FuseGive(t)
    \/ HttpGetStatus
    \/ WsTick

SpecConc == Init /\ [][NextConc]_vars

\* ------------------------------------------------------------ master: SpecAge
\* The master with its two callbacks and its timer task. Samples and reports
\* arrive or not; the timer task keeps running and time keeps passing.
NextAge == Sample \/ Report \/ WsTick \/ Advance

SpecAge == Init /\ [][NextAge]_vars /\ WF_vars(WsTick) /\ WF_vars(Advance)

\* ------------------------------------------------------------ statistics: SpecStat
\* trimmean and median called once on an array of BUFF_MIN_SIZE to MaxStatLen
\* values. The values are multiples of 60, so that every mean of two, three,
\* four or five of them is a whole number of units, as it is exact in float.
MaxStatLen == 6
StatValues == {60 * k : k \in 1..5}
StatArrays ==
    UNION {[1..n -> StatValues] : n \in BUFF_MIN_SIZE..MaxStatLen}

StatCall ==
    /\ stat = NoStat
    /\ \E array \in StatArrays : stat' = stat_call(array)
    /\ UNCHANGED <<bench, cal_log, s_cal_since, twin, clock>>
    /\ UNCHANGED masterVars
    /\ UNCHANGED slaveVars

NextStat == StatCall

SpecStat == InitSens /\ [][NextStat]_vars

\* ------------------------------------------------------------ both nodes: SpecBench
\* The two nodes share no memory: each handler reads and writes the state of
\* its own node only. A run of the bench powers one node and drives it in one
\* of the ways of the specifications above, so a property of SpecBench is a
\* property of every one of them.
Benches == {"fusion", "calibration", "sensitivity", "slave"}

InitBench ==
    /\ bench \in Benches
    /\ stat = NoStat
    /\ cal_log = NoCalLog
    /\ s_cal_since = U32(0)
    /\ twin = GStateDefault
    /\ bench \in {"fusion", "calibration"} => BootMaster
    /\ bench = "sensitivity" => BootSens
    /\ bench = "slave" => BootSlave

BenchFusion == bench = "fusion" /\ Next
BenchCalibration == bench = "calibration" /\ NextCal
BenchSensitivity == bench = "sensitivity" /\ NextSens
BenchSlave == bench = "slave" /\ NextSlave

NextBench == BenchFusion \/ BenchCalibration \/ BenchSensitivity \/ BenchSlave

SpecBench == InitBench /\ [][NextBench]_vars

\* ------------------------------------------------------------ both nodes: SpecLink
\* The master's calibration controller and one slave, joined by the ESP-NOW
\* broadcast: a command the master's last handler run sent is in the air
\* until the master's next handler run; the slave hears it or not.
InAir == {m_tx[i] : i \in 1..Len(m_tx)}

\* the slave's espnow_recv_cb is handed a command that is in the air
SlaveHear == SlaveRecvWith(InAir, {TRUE})

\* Bound on the environment: the operator starts and stops, the store opens.
LinkCalibrate == HttpPostCalibrateWith({"start", "stop"}, TrainOut, {TRUE})
LinkTick == WsTickWith({TRUE})

NextLink ==
    LinkCalibrate \/ LinkTick \/ AdvanceCal \/ SlaveHear \/ SlaveSample

SpecLink == InitSens /\ [][NextLink]_vars

\* ------------------------------------------------------------ claims on Spec
\* link i as the pass that finished last saw it: not timed out at the
\* clock value the pass read
FreshAt(st, i, now) ==
    Lt32(Sub32(now, st.links[i].last_update), U32(LINK_TIMEOUT_MS))
ActiveSet(st, now) == {i \in Links : st.links[i].active /\ FreshAt(st, i, now)}
DetectionSet(st, now) ==
    {i \in ActiveSet(st, now) :
        st.links[i].room_status \/ st.links[i].human_status}
MotionSet(st, now) == {i \in ActiveSet(st, now) : st.links[i].human_status}
Quorum(n) == IF n >= 2 THEN 2 ELSE 1

RoomOnly(l) == l.active /\ l.room_status /\ ~l.human_status

\* C1: after every fusion pass (none overlaps another in Spec), the fused
\* room_status equals detection_count >= quorum, with active_count the number
\* of links that are active and younger than 3000 ms at the pass's clock
\* value, detection_count the number of those with room or motion set, and
\* quorum 2 when active_count >= 2, else 1.  In particular links 0 and 1
\* active with room only and link 2 inactive give room = TRUE, moving =
\* FALSE, and link 0 alone with room gives room = TRUE.
C1_FusedRoomRule ==
    LET now == last_pass.now
        ac  == Cardinality(ActiveSet(g_state, now))
        dc  == Cardinality(DetectionSet(g_state, now))
    IN /\ g_state.room_status = (dc >= Quorum(ac))
       /\ (/\ RoomOnly(g_state.links[0]) /\ RoomOnly(g_state.links[1])
           /\ ~g_state.links[2].active)
              => (g_state.room_status /\ ~g_state.human_status)
       /\ (/\ g_state.links[0].active /\ g_state.links[0].room_status
           /\ ~g_state.links[1].active /\ ~g_state.links[2].active)
              => g_state.room_status

\* Scenario A has happened: links 0 and 1 report room only, link 2 is
\* inactive, and a pass has counted two active links
C1_Witness ==
    /\ RoomOnly(g_state.links[0]) /\ RoomOnly(g_state.links[1])
    /\ ~g_state.links[2].active
    /\ last_pass.cnt.active_count = 2
    /\ g_state.room_status /\ ~g_state.human_status

\* C3: a link that is 3000 ms or more behind the clock value of a fusion
\* pass is inactive after the pass and is counted in none of active_count,
\* detection_count and motion_count, whatever its stored flags are.
C3_StaleLinkExcluded ==
    LET now   == last_pass.now
        Fresh == {i \in Links : FreshAt(g_state, i, now)}
        l     == g_state.links
    IN /\ \A i \in Links \ Fresh : ~l[i].active
       /\ last_pass.cnt.active_count =
              Cardinality({i \in Fresh : l[i].active})
       /\ last_pass.cnt.detection_count =
              Cardinality({i \in Fresh :
                  l[i].active /\ (l[i].room_status \/ l[i].human_status)})
       /\ last_pass.cnt.motion_count =
              Cardinality({i \in Fresh : l[i].active /\ l[i].human_status})

\* a pass has dropped a timed-out link whose stored flags are both set,
\* while counting another link
C3_Witness ==
    \E i \in Links :
        /\ ~FreshAt(g_state, i, last_pass.now)
        /\ g_state.links[i].room_status /\ g_state.links[i].human_status
        /\ ~g_state.links[i].active
        /\ last_pass.cnt.active_count >= 1
        /\ last_pass.cnt.detection_count = 0

\* C4 (as claimed): in every state a link that is active was updated less
\* than 3000 ms ago.
C4_ActiveImpliesFresh ==
    \A i \in Links : g_state.links[i].active => FreshAt(g_state, i, clock)

\* C5 (as claimed, master part): whenever wander_threshold is below the
\* epsilon 0.0001 the local link's room flag is FALSE.
C5_UncalibratedNeverRoom ==
    g_state.wander_threshold < EPSILON => ~g_state.links[0].room_status

\* ------------------------------------------------------------ claims on SpecCal
NoDetection(st) ==
    /\ ~st.room_status /\ ~st.human_status
    /\ ~st.links[0].room_status /\ ~st.links[0].human_status

\* C6 (as claimed, master part): every fusion pass run while the master is
\* Training leaves the local link's room/motion and the fused room/moving
\* FALSE.
C6_TrainingSuppressesDetection ==
    [][(g_state.calibrating /\ g_state'.calibrating /\ last_pass' # last_pass)
          => NoDetection(g_state')]_vars

\* C7: a timer tick taken while Training stops the calibration exactly when
\* now - started_at >= duration_ms: then calibrating becomes FALSE, both
\* thresholds become the values the accumulator emits and CalibrationStop
\* (0x11) is broadcast; before that the tick leaves the controller and the
\* thresholds alone.  With the timer task running and time passing, Training
\* always ends.
C7_TickStops ==
    (WsTick /\ g_state.calibrating) =>
        IF ~Lt32(Sub32(clock, g_state.calibration_start_time),
                 g_state.calibration_duration_ms)
        THEN /\ ~g_state'.calibrating
             /\ g_state'.wander_threshold = train.out[1]
             /\ g_state'.jitter_threshold = train.out[2]
             /\ m_tx' = <<CmdMsg(CMD_CAL_STOP)>>
        ELSE /\ g_state'.calibrating
             /\ g_state'.wander_threshold = g_state.wander_threshold
             /\ g_state'.jitter_threshold = g_state.jitter_threshold
             /\ m_tx' = <<>>
C7_AutoStop ==
    /\ [][C7_TickStops]_vars
    /\ (g_state.calibrating ~> ~g_state.calibrating)

\* a calibration has run its 30000 ms and a tick has stopped it: the
\* thresholds differ from the ones the master booted with
C7_Witness ==
    /\ ~g_state.calibrating
    /\ ~train.on
    /\ ~Lt32(Sub32(clock, g_state.calibration_start_time),
             g_state.calibration_duration_ms)
    /\ m_tx = <<CmdMsg(CMD_CAL_STOP)>>
    /\ observed.calibrating = FALSE
    /\ g_state.wander_threshold = train.out[1]
    /\ g_state.wander_threshold # nvs_load_settings(GStateDefault, EmptyStore).wander_threshold

\* ------------------------------------------------------------ C9
InSensRange(v) == v >= SENS_MIN /\ v <= SENS_MAX
SensOf(st, l) == <<st.links[l].wander_sensitivity, st.links[l].jitter_sensitivity>>

\* what a step of the sensitivity endpoint that handled request req may do
C9_StepRule(req) ==
    IF ~req.has_body THEN TRUE
    ELSE IF req.link_idx \notin Links
    THEN g_state' = g_state /\ nvs' = nvs /\ m_tx' = <<>>
    ELSE LET l == req.link_idx
         IN /\ SensOf(g_state', l)[1] =
                  IF InSensRange(req.wander_sens) THEN req.wander_sens
                  ELSE SensOf(g_state, l)[1]
            /\ SensOf(g_state', l)[2] =
                  IF InSensRange(req.jitter_sens) THEN req.jitter_sens
                  ELSE SensOf(g_state, l)[2]

\* C9: on the master's set-sensitivity action a wander or jitter sensitivity
\* outside [0.001, 5.0], or missing, is rejected: the addressed link's stored
\* value keeps its previous value and is not clamped; each of the two fields
\* is judged on its own, so a valid one is stored next to a rejected one; a
\* link index outside 0..2 changes no state and sends no command.
C9_OutOfRangeRejected == [][C9_StepRule(http_req')]_vars

\* a request for link 2 with a wander value above the range and a jitter
\* value at its lower end: wander kept, jitter stored, command sent
C9_Witness ==
    /\ http_req = Request(TRUE, NUM_LINKS - 1, SENS_MAX + 1, SENS_MIN)
    /\ SensOf(g_state, NUM_LINKS - 1) = <<DEF_WANDER_SENS, SENS_MIN>>
    /\ m_tx # <<>>

\* ------------------------------------------------------------ C8
IsSetSensitivity(data) ==
    Len(data) >= 10 /\ Byte(data, 0) = CMD_SET_SENSITIVITY
PayloadOf(data) ==
    <<F32FromBytes(Bytes(data, 2, 4)), F32FromBytes(Bytes(data, 6, 4))>>
SlaveSens == <<g_detect.wander_sensitivity, g_detect.jitter_sensitivity>>

\* C8: a SetSensitivity command whose target differs from the slave's node id
\* leaves the slave's whole state as it was (sensitivities, thresholds,
\* calibrating flag, sample window, persisted settings); the two values are
\* stored exactly when the target is the slave's own id.
C8_OnlyOwnTargetApplied ==
    [][IsSetSensitivity(s_rx') =>
          IF Byte(s_rx', 1) # g_node_id
          THEN UNCHANGED <<g_detect, g_node_id, s_nvs, s_train, s_last_send_time>>
          ELSE SlaveSens' = PayloadOf(s_rx')]_vars

\* a slave that holds values set by an earlier command of its own has just
\* been handed a command for the other slave carrying different values
C8_Witness ==
    /\ IsSetSensitivity(s_rx)
    /\ Byte(s_rx, 1) # g_node_id
    /\ SlaveSens = <<SENS_MIN, SENS_MAX>>
    /\ PayloadOf(s_rx) # SlaveSens
    /\ s_nvs # EmptyStore

\* ------------------------------------------------------------ C10
\* C10: every sensitivity held by a node, the 3x2 of the master and the two
\* of the slave, lies within [0.001, 5.0] in every reachable state, whatever
\* values a received SetSensitivity carries.
C10_SensitivitiesInRange ==
    /\ \A l \in Links : InSensRange(SensOf(g_state, l)[1])
                        /\ InSensRange(SensOf(g_state, l)[2])
    /\ InSensRange(SlaveSens[1])
    /\ InSensRange(SlaveSens[2])

\* ------------------------------------------------------------ C2
\* C2: the fused pair is written and read under one mutual-exclusion scope:
\* in every interleaving of fusion passes of the two callbacks with the
\* readers http_get_status and ws_broadcast_task, the pair a reader formats
\* satisfies moving => room; no reader sees a half-written pair.
C2_ReaderSeesWholePair == observed.moving => observed.room

\* a reader has formatted room and moving both true, and the published pair
\* is being rewritten: one pass holds the mutex between its two writes with
\* room already false and moving still true
C2_Witness ==
    /\ observed.room /\ observed.moving
    /\ \E t \in Tasks : task[t].pc = "human"
    /\ ~g_state.room_status /\ g_state.human_status

\* ------------------------------------------------------------ C11
SlaveFrame == <<g_detect, g_node_id, s_nvs, s_train, s_last_send_time>>
HandledOpcodes ==
    {CMD_CAL_START, CMD_CAL_STOP, CMD_SET_THRESHOLDS, CMD_SET_SENSITIVITY}

\* C11: a message whose first byte lies outside 0x10..0x1F (a report of
\* another slave, sensing traffic), or inside it but not 0x10, 0x11, 0x12 or
\* 0x13, leaves the slave's state as it was and makes it send nothing.
C11_NonCommandIgnored ==
    [][(Len(s_rx') >= 1 /\ Byte(s_rx', 0) \notin HandledOpcodes)
          => (UNCHANGED SlaveFrame /\ s_tx' = <<>>)]_vars

\* a slave in Training with five samples stored has just been handed the
\* report of another slave
C11_Witness ==
    /\ Len(s_rx) = REPORT_SIZE
    /\ Byte(s_rx, 0) = 1
    /\ g_detect.calibrating
    /\ ~Lt32(g_detect.buff_count, U32(BUFF_MIN_SIZE))

\* ------------------------------------------------------------ C12
\* every proper prefix of a DetectionReport of node 1
ShortReports ==
    {SubSeq(ReportMsg(1, TRUE, TRUE), 1, k) : k \in 0..(REPORT_SIZE - 1)}
\* the empty message, and every proper prefix of a SetThresholds and of a
\* SetSensitivity addressed to node
ShortCommands(node) ==
    {<<>>}
    \cup {SubSeq(encode_thresholds(PayloadThresholds[1], PayloadThresholds[2]),
                 1, k) : k \in 1..8}
    \cup {SubSeq(encode_sensitivity(node, SENS_MIN, SENS_MAX), 1, k) : k \in 1..9}

\* C12: in every state either node can reach, the master's receive callback
\* handed a message of fewer than 17 bytes runs no pass and leaves g_state as
\* it is, and the slave's receive callback handed an empty message, a
\* SetThresholds of fewer than 9 bytes or a SetSensitivity of fewer than 10
\* bytes leaves g_detect, the store and the training flag as they are and
\* sends nothing.
C12_ShortDropped ==
    /\ \A msg \in ShortReports :
          espnow_recv_cb(g_state, msg, clock) = NoPass(g_state)
    /\ \A data \in ShortCommands(g_node_id) :
          slave_espnow_recv_cb(g_detect, s_nvs, s_train, s_last_send_time,
                               g_node_id, data, <<0, 0>>, TRUE)
             = SlaveOutcome(g_detect, s_nvs, s_train, <<>>, s_last_send_time)

\* a slave in Training has just been handed a SetThresholds of 8 bytes, and
\* still has the thresholds it booted with
C12_Witness ==
    /\ bench = "slave"
    /\ Len(s_rx) = 8
    /\ Byte(s_rx, 0) = CMD_SET_THRESHOLDS
    /\ g_detect.calibrating
    /\ g_detect.wander_threshold = S_DEF_WANDER_TH
    /\ g_detect.jitter_threshold = S_DEF_JITTER_TH

\* ------------------------------------------------------------ C13
\* the link record the master's callback stores for a report
StoredLink(msg) == recv_store(g_state, msg, clock).links[report_node_id(msg)]
\* g_detect of the slave the command is addressed to, after its callback
\* has handled the command
AfterCommand(msg) ==
    slave_espnow_recv_cb(g_detect, s_nvs, s_train, s_last_send_time,
                         Byte(msg, 1), msg, <<0, 0>>, TRUE).d

\* C13: every DetectionReport a slave sends is admitted by the master's
\* callback and stored with the slave's node id, room flag, motion flag,
\* smoothed wander, smoothed jitter and rssi; every SetSensitivity the
\* master sends carries the link index as target and the link's two stored
\* sensitivities at offsets 2 and 6, and the slave it is addressed to stores
\* exactly those two values.
C13_RoundTrip ==
    /\ \A i \in 1..Len(s_tx) :
          /\ IsReport(s_tx[i])
          /\ Len(s_tx[i]) = REPORT_SIZE
          /\ report_node_id(s_tx[i]) = g_node_id
          /\ StoredLink(s_tx[i]).room_status = g_detect.room_status
          /\ StoredLink(s_tx[i]).human_status = g_detect.human_status
          /\ StoredLink(s_tx[i]).wander = trimmean(BuffSeq(g_detect.wander_buff))
          /\ StoredLink(s_tx[i]).jitter = median(BuffSeq(g_detect.jitter_buff))
          /\ StoredLink(s_tx[i]).rssi = 0
    /\ \A i \in 1..Len(m_tx) :
          Byte(m_tx[i], 0) = CMD_SET_SENSITIVITY =>
             /\ Len(m_tx[i]) = 10
             /\ Byte(m_tx[i], 1) = http_req.link_idx
             /\ Bytes(m_tx[i], 2, 4)
                   = F32Bytes(g_state.links[http_req.link_idx].wander_sensitivity)
             /\ Bytes(m_tx[i], 6, 4)
                   = F32Bytes(g_state.links[http_req.link_idx].jitter_sensitivity)
             /\ AfterCommand(m_tx[i]).wander_sensitivity
                   = g_state.links[http_req.link_idx].wander_sensitivity
             /\ AfterCommand(m_tx[i]).jitter_sensitivity
                   = g_state.links[http_req.link_idx].jitter_sensitivity

\* a slave that detects presence and motion has just sent a report with a
\* smoothed wander above zero
C13_Witness ==
    /\ bench = "slave"
    /\ Len(s_tx) = 1
    /\ g_detect.room_status
    /\ g_detect.human_status
    /\ report_wander(s_tx[1]) > 0

\* ------------------------------------------------------------ C14
FirstPass == fuse_detection_results(g_state, clock)
SecondPass == fuse_detection_results(FirstPass.st, clock)

\* C14: in every state the master can reach, a fusion pass run at the
\* current clock value followed at once by a second one (same clock value,
\* nothing else in between) leaves after the second pass the same g_state,
\* link table and fused room/moving values included, and the same three
\* counts as after the first.
C14_FusionIdempotent ==
    /\ SecondPass.st = FirstPass.st
    /\ SecondPass.cnt = FirstPass.cnt

\* a pass has just run at the current clock value over two live links and
\* found presence and motion; one more pass changes nothing
C14_Witness ==
    /\ last_pass.now = clock
    /\ last_pass.cnt.active_count >= 2
    /\ g_state.room_status
    /\ g_state.human_status
    /\ FirstPass.st = g_state
    /\ FirstPass.cnt = last_pass.cnt

\* ------------------------------------------------------------ C15
MasterOpcodes == {CMD_CAL_START, CMD_CAL_STOP, CMD_SET_SENSITIVITY}

\* C15: every message the master sends starts with 0x10, 0x11 or 0x13, and
\* its CalibrationStart and CalibrationStop are the opcode alone (they carry
\* no threshold); a slave that has just handled a CalibrationStop holds the
\* pair its own accumulator wrote.
C15_MasterNeverSendsThresholds ==
    /\ \A i \in 1..Len(m_tx) :
          /\ Byte(m_tx[i], 0) \in MasterOpcodes
          /\ Byte(m_tx[i], 0) # CMD_SET_SENSITIVITY => Len(m_tx[i]) = 1
    /\ (Len(s_rx) >= 1 /\ Byte(s_rx, 0) = CMD_CAL_STOP)
          => <<g_detect.wander_threshold, g_detect.jitter_threshold>> \in TrainOut

\* the master has just ended a calibration: it holds the thresholds of its
\* accumulator and has sent the one-byte CalibrationStop and nothing else
C15_Witness ==
    /\ bench = "calibration"
    /\ m_tx = <<CmdMsg(CMD_CAL_STOP)>>
    /\ ~g_state.calibrating
    /\ g_state.wander_threshold = StoredWanderTh
    /\ nvs = MasterStoreOf(g_state)

\* ------------------------------------------------------------ C16
\* C16: the slave leaves Training only in a step in which its callback is
\* handed a CalibrationStop (no sample and no passing of time ends it), and
\* the master puts a CalibrationStop in the air only in the step that ends
\* its own calibration, never again afterwards.
C16_TrainingUntilStop ==
    [][/\ (g_detect.calibrating /\ ~g_detect'.calibrating)
            => s_rx' = CmdMsg(CMD_CAL_STOP)
       /\ (m_tx' # m_tx /\ CmdMsg(CMD_CAL_STOP) \in {m_tx'[i] : i \in 1..Len(m_tx')})
            => (g_state.calibrating /\ ~g_state'.calibrating)]_vars

\* the master's stop was lost: the master has ended its calibration and has
\* run another handler since, nothing is in the air, the slave has sampled
\* on and is still in Training at the end of the horizon
C16_Witness ==
    /\ ~g_state.calibrating
    /\ g_state.wander_threshold = StoredWanderTh
    /\ m_tx = <<>>
    /\ g_detect.calibrating
    /\ ~Lt32(g_detect.buff_count, U32(BUFF_MIN_SIZE))
    /\ clock = U32(MaxCalTicks * CalQuantum)

\* ------------------------------------------------------------ C17
\* link i is marked active and was last updated 3000 ms ago or more
Stale(i) == g_state.links[i].active /\ ~FreshAt(g_state, i, clock)

\* C17 (as claimed): a link that is active and 3000 ms or more behind the
\* clock is eventually marked inactive, whether or not a sample or a report
\* arrives afterwards.
C17_LinkAgesOut ==
    \A i \in Links : Stale(i) ~> ~g_state.links[i].active

\* ------------------------------------------------------------ C18
\* the k-th smallest value of array (k = 1 the smallest), found by counting
Kth(array, k) ==
    CHOOSE v \in {array[i] : i \in DOMAIN array} :
        /\ Cardinality({i \in DOMAIN array : array[i] < v}) < k
        /\ Cardinality({i \in DOMAIN array : array[i] <= v}) >= k

RECURSIVE SumKth(_, _, _)
SumKth(array, lo, hi) ==
    IF lo > hi THEN 0 ELSE Kth(array, lo) + SumKth(array, lo + 1, hi)

\* floor(n * 0.5 / 2)
Dropped(n) == n \div 4

OnlyStored(old, new) ==
    /\ new.buff_count = Add32(old.buff_count, U32(1))
    /\ \A k \in Slots \ {Mod32(old.buff_count, RADAR_BUFF_MAX_LEN)} :
          /\ new.wander_buff[k] = old.wander_buff[k]
          /\ new.jitter_buff[k] = old.jitter_buff[k]
    /\ new = [old EXCEPT !.wander_buff = new.wander_buff,
                          !.jitter_buff = new.jitter_buff,
                          !.buff_count = new.buff_count]

\* C19: a step of the master's sample callback that leaves the sample count
\* below 5 only stores the sample, leaves link 0 inactive, runs no fusion
\* pass and sends nothing; a step of the slave's sample callback that
\* leaves the count below 5 only stores the sample (room and motion as they
\* were) and sends no report.
C19_WarmUp ==
    [][/\ (g_state.buff_count' # g_state.buff_count
             /\ Lt32(g_state.buff_count', U32(BUFF_MIN_SIZE)))
            => /\ OnlyStored(g_state, g_state')
               /\ ~g_state'.links[0].active
               /\ last_pass' = last_pass
               /\ m_tx' = <<>>
       /\ (g_detect.buff_count' # g_detect.buff_count
             /\ Lt32(g_detect.buff_count', U32(BUFF_MIN_SIZE)))
            => /\ OnlyStored(g_detect, g_detect')
               /\ s_tx' = <<>>
               /\ s_last_send_time' = s_last_send_time]_vars

\* the master has stored four samples of the high level since boot; the
\* fused status still is what the reports of two slaves made it
C19_Witness ==
    /\ g_state.buff_count = U32(BUFF_MIN_SIZE - 1)
    /\ g_state.wander_buff[BUFF_MIN_SIZE - 2] = WanderHi
    /\ ~g_state.links[0].active
    /\ last_pass.cnt.active_count = 2
    /\ g_state.room_status

\* ------------------------------------------------------------ C20
\* the master's finish_calibration, the store opening
StopSaved == finish_calibration(g_state, train, nvs, TRUE)
\* the slave's handling of a CalibrationStop, the accumulator emitting out,
\* the store opening
SlaveStopSaved(out) ==
    slave_espnow_recv_cb(g_detect, s_nvs, s_train, s_last_send_time, g_node_id,
                         CmdMsg(CMD_CAL_STOP), out, TRUE)
\* the last request named a link of the master and had a body
UpdateHandled == http_req.has_body /\ http_req.link_idx \in Links
\* the slave's last handler run handled a CalibrationStop or a SetSensitivity
\* addressed to it
SlaveSaved ==
    /\ Len(s_rx) >= 1
    /\ \/ Byte(s_rx, 0) = CMD_CAL_STOP
       \/ /\ Byte(s_rx, 0) = CMD_SET_SENSITIVITY
          /\ Len(s_rx) >= 10
          /\ Byte(s_rx, 1) = g_node_id

\* C20: with the store opening, the master's finish_calibration run in any
\* state in which it is calibrating, and the slave's handling of a
\* CalibrationStop in any state, leave a store that holds the node's
\* thresholds and sensitivities as they are in memory after the run; the
\* same holds in the state after every sensitivity request the master has
\* handled for one of its links and after every CalibrationStop or own
\* SetSensitivity the slave has handled.
C20_PersistedEqualsMemory ==
    /\ g_state.calibrating =>
          /\ StopSaved.nvs = MasterStoreOf(StopSaved.st)
          /\ StopSaved.st.wander_threshold = train.out[1]
          /\ StopSaved.st.jitter_threshold = train.out[2]
    /\ \A out \in TrainOut :
          /\ SlaveStopSaved(out).nvs = SlaveStoreOf(SlaveStopSaved(out).d)
          /\ SlaveStopSaved(out).d.wander_threshold = out[1]
          /\ SlaveStopSaved(out).d.jitter_threshold = out[2]
    /\ (bench = "sensitivity" /\ UpdateHandled) => nvs = MasterStoreOf(g_state)
    /\ (bench = "slave" /\ SlaveSaved) => s_nvs = SlaveStoreOf(g_detect)

\* the master has stored 0.001 and 5.0 for link 2 on request, and its store
\* holds them beside the thresholds
C20_Witness ==
    /\ bench = "sensitivity"
    /\ http_req.link_idx = MAX_SLAVE_NODES
    /\ g_state.links[MAX_SLAVE_NODES].wander_sensitivity = SENS_MIN
    /\ g_state.links[MAX_SLAVE_NODES].jitter_sensitivity = SENS_MAX
    /\ nvs[WSensKey(MAX_SLAVE_NODES)] = SENS_MIN
    /\ nvs[JSensKey(MAX_SLAVE_NODES)] = SENS_MAX
    /\ nvs["wander_th"] = g_state.wander_threshold

\* ------------------------------------------------------------ both nodes: SpecStore
\* Either node with a store that may fail: at boot the namespace may be
\* missing altogether or lack some keys, and every later nvs_open may fail.
Restrict(store, keys) == [k \in keys |-> store[k]]

\* a store in which every key differs from the built-in default
FullMasterStore ==
    MasterStoreOf([GStateDefault EXCEPT
        !.wander_threshold = StoredWanderTh,
        !.jitter_threshold = 2 * M_DEF_JITTER_TH,
        !.links = [i \in Links |->
            [GStateDefault.links[i] EXCEPT !.wander_sensitivity = SENS_MIN,
                                           !.jitter_sensitivity = SENS_MAX]]])
FullSlaveStore ==
    SlaveStoreOf([GDetectDefault EXCEPT
        !.wander_threshold = StoredWanderTh,
        !.jitter_threshold = M_DEF_JITTER_TH,
        !.wander_sensitivity = SENS_MIN,
        !.jitter_sensitivity = SENS_MAX])

\* stores found at boot: never written, one key only, one key missing, keys
\* of both kinds missing, complete
MasterPartStores ==
    {Restrict(FullMasterStore, ks) :
        ks \in {{}, {"wander_th"}, DOMAIN FullMasterStore \ {"wander_th"},
                {"jitter_th", WSensKey(1)}, DOMAIN FullMasterStore}}
SlavePartStores ==
    {Restrict(FullSlaveStore, ks) :
        ks \in {{}, {"jitter_th"}, DOMAIN FullSlaveStore \ {"jitter_sens"},
                DOMAIN FullSlaveStore}}

StoreBenches == {"calibration", "sensitivity", "slave"}

InitStore ==
    /\ bench \in StoreBenches
    /\ stat = NoStat
    /\ cal_log = NoCalLog
    /\ s_cal_since = U32(0)
    /\ twin = GStateDefault
    /\ nvs \in (IF bench = "slave" THEN {EmptyStore} ELSE MasterPartStores)
    /\ g_state = nvs_load_settings(GStateDefault, nvs)
    /\ m_tx = <<>>
    /\ clock = U32(0)
    /\ g_state_mutex = "free"
    /\ task = [t \in {"radar", "wifi"} |-> TaskIdle]
    /\ last_pass = NoPassYet
    /\ observed = StatusPair(g_state)
    /\ train = TrainIdle
    /\ http_req = NoRequest
    /\ s_nvs \in (IF bench = "slave" THEN SlavePartStores ELSE {EmptyStore})
    /\ g_detect = slave_nvs_load_settings(GDetectDefault, s_nvs)
    /\ g_node_id = CONFIG_SLAVE_NODE_ID
    /\ s_tx = <<>>
    /\ s_last_send_time = U32(0)
    /\ s_train = SlaveTrainIdle
    /\ s_rx = <<>>

\* requests and commands that end in nvs_save_settings, and some that do not
StoreRequests ==
    {Request(TRUE, 0, SENS_MIN, SENS_MAX),
     Request(TRUE, NUM_LINKS - 1, SENS_MAX, SENS_MIN),
     Request(TRUE, 1, SENS_MAX + 1, -SensScale),
     NoRequest}
StoreCommands ==
    {CmdMsg(CMD_CAL_START), CmdMsg(CMD_CAL_STOP),
     encode_thresholds(PayloadThresholds[1], PayloadThresholds[2]),
     encode_sensitivity(CONFIG_SLAVE_NODE_ID, SENS_MAX, SENS_MIN),
     encode_sensitivity(CONFIG_SLAVE_NODE_ID, DEF_WANDER_SENS, DEF_JITTER_SENS),
     encode_sensitivity(1, SENS_MAX, SENS_MIN)}

StoreCalibration == bench = "calibration" /\ NextCal
StoreSensitivity ==
    bench = "sensitivity" /\ HttpPostSensitivityWith(StoreRequests, BOOLEAN)
StoreSlave == bench = "slave" /\ SlaveRecvWith(StoreCommands, BOOLEAN)

NextStore == StoreCalibration \/ StoreSensitivity \/ StoreSlave

SpecStore == InitStore /\ [][NextStore]_vars

\* ------------------------------------------------------------ C21
\* two outcomes of a master handler agree in everything but the store
SameButStore(f, t) == f.st = t.st /\ f.train = t.train /\ f.tx = t.tx
\* two outcomes of a slave handler agree in everything but the store
SlaveSameButStore(f, t) ==
    f.d = t.d /\ f.train = t.train /\ f.tx = t.tx /\ f.last_send = t.last_send

\* the master's handlers that save, run with nvs_open failing (f) and
\* succeeding (t)
C21_MasterSave ==
    /\ \A body \in Bodies, out \in TrainOut :
          LET f == http_post_calibrate(g_state, train, nvs, body, clock, out, FALSE)
              t == http_post_calibrate(g_state, train, nvs, body, clock, out, TRUE)
          IN SameButStore(f, t) /\ f.nvs = nvs
    /\ LET f == ws_check_calibration(g_state, train, nvs, clock, FALSE)
           t == ws_check_calibration(g_state, train, nvs, clock, TRUE)
       IN SameButStore(f, t) /\ f.nvs = nvs
    /\ g_state.calibrating =>
          LET f == finish_calibration(g_state, train, nvs, FALSE)
          IN /\ ~f.st.calibrating
             /\ f.st.wander_threshold = train.out[1]
             /\ f.st.jitter_threshold = train.out[2]
             /\ f.st.links = g_state.links
             /\ f.tx = <<CmdMsg(CMD_CAL_STOP)>>
    /\ \A req \in StoreRequests :
          LET f == http_post_sensitivity(g_state, train, nvs, req, FALSE)
              t == http_post_sensitivity(g_state, train, nvs, req, TRUE)
          IN SameButStore(f, t) /\ f.nvs = nvs

C21_SlaveSave ==
    \A data \in StoreCommands : \A out \in TrainOutFor(data) :
        LET f == slave_espnow_recv_cb(g_detect, s_nvs, s_train, s_last_send_time,
                                      g_node_id, data, out, FALSE)
            t == slave_espnow_recv_cb(g_detect, s_nvs, s_train, s_last_send_time,
                                      g_node_id, data, out, TRUE)
        IN SlaveSameButStore(f, t) /\ f.nvs = s_nvs

\* what boot makes of a store: a key that is present gives its value, a
\* missing key (or a namespace that cannot be opened) the built-in default
Booted(store, key, dflt) == IF key \in DOMAIN store THEN store[key] ELSE dflt
C21_Boot ==
    /\ \A store \in MasterPartStores :
          LET st == nvs_load_settings(GStateDefault, store)
          IN /\ st.wander_threshold = Booted(store, "wander_th", M_DEF_WANDER_TH)
             /\ st.jitter_threshold = Booted(store, "jitter_th", M_DEF_JITTER_TH)
             /\ \A i \in Links :
                   /\ st.links[i].wander_sensitivity
                         = Booted(store, WSensKey(i), DEF_WANDER_SENS)
                   /\ st.links[i].jitter_sensitivity
                         = Booted(store, JSensKey(i), DEF_JITTER_SENS)
             /\ ~st.calibrating
    /\ \A store \in SlavePartStores :
          LET d == slave_nvs_load_settings(GDetectDefault, store)
          IN /\ d.wander_threshold = Booted(store, "wander_th", S_DEF_WANDER_TH)
             /\ d.jitter_threshold = Booted(store, "jitter_th", S_DEF_JITTER_TH)
             /\ d.wander_sensitivity = Booted(store, "wander_sens", DEF_WANDER_SENS)
             /\ d.jitter_sensitivity = Booted(store, "jitter_sens", DEF_JITTER_SENS)
             /\ ~d.calibrating

PayloadFloats == {-(5 * 10), 0, 5 * 10}
ThresholdCommands ==
    {CmdMsg(CMD_CAL_START), CmdMsg(CMD_CAL_STOP)}
    \cup {encode_thresholds(w, j) : w \in PayloadFloats, j \in PayloadFloats}

SlaveCommand == SlaveRecvWith(ThresholdCommands, {TRUE})

NextCmd == SlaveSample \/ SlaveCommand \/ AdvanceSlave

SpecCmd == InitSlave /\ [][NextCmd]_vars

\* ------------------------------------------------------------ C22
\* C22 (as claimed): in every reachable state of the master and of a slave
\* both thresholds are >= 0, whatever calibration events and commands
\* arrive, a SetThresholds with arbitrary payload values included.
C22_ThresholdsNonNegative ==
    /\ g_state.wander_threshold >= 0
    /\ g_state.jitter_threshold >= 0
    /\ g_detect.wander_threshold >= 0
    /\ g_detect.jitter_threshold >= 0

\* ------------------------------------------------------------ C23
\* C23: after every fusion pass (none overlaps another in Spec), with the
\* counts taken over the links that are active and younger than 3000 ms at
\* the pass's clock value, the fused human_status equals room_status and
\* motion_count >= quorum; motion_count never exceeds detection_count, so
\* human_status equals motion_count >= quorum alone; and one link with
\* motion among two or more active links gives human_status = FALSE.
C23_FusedMovingRule ==
    LET now == last_pass.now
        ac  == Cardinality(ActiveSet(g_state, now))
        dc  == Cardinality(DetectionSet(g_state, now))
        mc  == Cardinality(MotionSet(g_state, now))
    IN /\ last_pass.cnt.motion_count = mc
       /\ g_state.human_status = (g_state.room_status /\ mc >= Quorum(ac))
       /\ mc <= dc
       /\ g_state.human_status = (mc >= Quorum(ac))
       /\ (ac >= 2 /\ mc = 1) => ~g_state.human_status

\* a pass has counted two active links that both detect, one of them with
\* motion: room is published, moving is not
C23_Witness ==
    /\ last_pass.cnt.active_count = 2
    /\ last_pass.cnt.detection_count = 2
    /\ last_pass.cnt.motion_count = 1
    /\ g_state.room_status
    /\ ~g_state.human_status

\* ------------------------------------------------------------ C24
\* messages put to the master's receive callback in any state: those of
\* Messages, a report with a negative rssi and a timestamp of its own, and
\* a report followed by one more byte
ReportTimestamp == 77
ReportRssi == -40
ProbeMessages ==
    Messages
    \cup {encode_report(1, FALSE, TRUE, ReportJitter, ReportWander, ReportRssi,
                        U32(ReportTimestamp)),
          ReportMsg(MAX_SLAVE_NODES, TRUE, FALSE) \o <<0>>}

\* the claim's condition on a message: type 0x01, at least 17 bytes, node id
\* 1 or 2
Admitted(msg) ==
    /\ Len(msg) >= REPORT_SIZE
    /\ msg[1] = 1
    /\ msg[2] \in 1..MAX_SLAVE_NODES

\* the record the claim gives link n after msg is stored at clock value now
ReportedLink(old, msg, now) ==
    [old EXCEPT !.active = TRUE,
                !.room_status = (msg[3] # 0),
                !.human_status = (msg[4] # 0),
                !.wander = F32FromBytes(SubSeq(msg, 5, 8)),
                !.jitter = F32FromBytes(SubSeq(msg, 9, 12)),
                !.rssi = I8FromByte(msg[13]),
                !.last_update = now]

\* C24: in every state the master reaches, a message of type 0x01 with at
\* least 17 bytes and node id n in {1,2} makes the receive callback set
\* links[n] active, copy room, motion, wander, jitter and rssi from the
\* message and set last_update to the master's clock, leave every other
\* field of g_state (link 0 and the other slave's link included) as it was,
\* and then run one fusion pass on that state; every other message leaves
\* g_state as it was and runs no pass.
C24_ReportStored ==
    \A msg \in ProbeMessages :
        IF Admitted(msg)
        THEN LET n  == msg[2]
                 s1 == recv_store(g_state, msg, clock)
             IN /\ s1.links[n] = ReportedLink(g_state.links[n], msg, clock)
                /\ s1 = [g_state EXCEPT !.links[n] = s1.links[n]]
                /\ espnow_recv_cb(g_state, msg, clock)
                      = fuse_detection_results(s1, clock)
                /\ espnow_recv_cb(g_state, msg, clock).ran
        ELSE /\ espnow_recv_cb(g_state, msg, clock).st = g_state
             /\ ~espnow_recv_cb(g_state, msg, clock).ran

\* the master, its local link active with a smoothed wander of its own, has
\* stored a report of node 1 at clock value 1500 ms (the report's timestamp
\* field holds 0) and fused; link 2 was never heard
C24_Witness ==
    /\ g_state.links[1].active
    /\ g_state.links[1].last_update = U32(TimeQuantum)
    /\ g_state.links[1].wander = ReportWander
    /\ g_state.links[1].jitter = ReportJitter
    /\ g_state.links[0].active
    /\ g_state.links[0].wander > 0
    /\ g_state.links[0].last_update = U32(0)
    /\ ~g_state.links[2].active
    /\ last_pass.now = U32(TimeQuantum)
    /\ last_pass.cnt.active_count = 2

\* ------------------------------------------------------------ C25
\* the fusion pass of a callback run at the current clock value on s0
PassOn(s0) == fuse_detection_results(s0, clock).st
SlaveLinks == 1..MAX_SLAVE_NODES

\* the states in which a callback run now would call fuse_detection_results:
\* g_state with a report stored, or with a sample stored and link 0 updated
PassEntries ==
    {recv_store(g_state, msg, clock) : msg \in {m \in Messages : IsReport(m)}}
    \cup {radar_update_link(radar_store(g_state, s[1], s[2]), clock) :
             s \in {x \in Samples :
                       Ge32(Add32(g_state.buff_count, U32(1)), U32(BUFF_MIN_SIZE))}}

\* the master rule for link 0: one comparison of the stored smoothed value
\* times the sensitivity against the threshold
MasterRoom(st) ==
    st.wander_threshold > 0
    /\ st.links[0].wander * st.links[0].wander_sensitivity
          > st.wander_threshold * SensScale
MasterMotion(st) ==
    st.jitter_threshold > 0
    /\ st.links[0].jitter * st.links[0].jitter_sensitivity
          > st.jitter_threshold * SensScale

\* what the claim allows a pass to make of s0
PassFrame(s0) ==
    LET p == PassOn(s0)
    IN /\ p = [s0 EXCEPT !.links = p.links,
                         !.room_status = p.room_status,
                         !.human_status = p.human_status]
       /\ \A i \in SlaveLinks :
             /\ p.links[i] = [s0.links[i] EXCEPT !.active = p.links[i].active]
             /\ p.links[i].active => s0.links[i].active
       /\ p.links[0] = [s0.links[0] EXCEPT
                           !.active = p.links[0].active,
                           !.room_status = p.links[0].room_status,
                           !.human_status = p.links[0].human_status]
       /\ IF s0.links[0].active /\ FreshAt(s0, 0, clock)
          THEN /\ p.links[0].active
               /\ p.links[0].room_status = MasterRoom(s0)
               /\ p.links[0].human_status = MasterMotion(s0)
          ELSE /\ ~p.links[0].active
               /\ p.links[0].room_status = s0.links[0].room_status
               /\ p.links[0].human_status = s0.links[0].human_status

MaxVoteSamples == 5
PrefillCount == 14
JitterLow == 15
JitterTop == 6 * 100
JitterValues == {0, JitterLow, JitterHi, JitterTop}
PrefillJitter == {0, JitterLow, JitterTop}
VoteThresholds == {S_DEF_JITTER_TH, EPSILON}

\* g_detect after PrefillCount samples of wander 0 and jitter j, the
\* jitter threshold being th
Prefilled(j, th) ==
    slave_detect([GDetectDefault EXCEPT
        !.jitter_buff = [k \in Slots |-> IF k < PrefillCount THEN j ELSE 0],
        !.buff_count = U32(PrefillCount),
        !.jitter_threshold = th])

InitVote ==
    /\ InitMaster
    /\ nvs = EmptyStore
    /\ InitRig
    /\ \E j \in PrefillJitter, th \in VoteThresholds : g_detect = Prefilled(j, th)
    /\ g_node_id = CONFIG_SLAVE_NODE_ID
    /\ s_nvs = EmptyStore
    /\ s_tx = <<>>
    /\ s_last_send_time = U32(0)
    /\ s_train = SlaveTrainIdle
    /\ s_rx = <<>>

VoteSample ==
    SlaveSampleWith({<<0, j>> : j \in JitterValues}, PrefillCount + MaxVoteSamples)

NextVote == VoteSample

SpecVote == InitVote /\ [][NextVote]_vars

\* ------------------------------------------------------------ C26
\* the slave's sample count as a number (it stays far below 2^31 here)
SampleCount == (g_detect.buff_count[1] * Half) + g_detect.buff_count[2]
\* the raw jitter sample i places back from the newest one
RecentJitter(i) ==
    g_detect.jitter_buff[(SampleCount - 1 - i) % RADAR_BUFF_MAX_LEN]
\* the median of the 25 slots: the 13th smallest
WindowMedian ==
    Kth(BuffSeq(g_detect.jitter_buff), (RADAR_BUFF_MAX_LEN + 1) \div 2)
\* a raw sample j votes for motion
Votes(j) ==
    \/ j * g_detect.jitter_sensitivity > g_detect.jitter_threshold * SensScale
    \/ /\ j * g_detect.jitter_sensitivity > WindowMedian * SensScale
       /\ j > JITTER_FLOOR
VoteCount == Cardinality({i \in 0..(BUFF_MIN_SIZE - 1) : Votes(RecentJitter(i))})

\* C26: on a slave that has stored 5 samples or more, after every sample
\* the motion flag is: jitter_threshold > 0.0001 and at least 2 of the 5
\* newest raw jitter samples (slots (count-1-i) mod 25, i = 0..4) vote,
\* where a sample j votes when j * jitter_sensitivity > jitter_threshold or
\* when j * jitter_sensitivity > the median of the 25 slots and j > 0.0002.
\* Older samples enter only through that median.
C26_MotionVote ==
    SampleCount >= BUFF_MIN_SIZE =>
        g_detect.human_status =
            (g_detect.jitter_threshold > EPSILON /\ VoteCount >= BUFF_OUTLIERS_NUM)

\* five quiet samples have followed fourteen loud ones: the sixth newest
\* sample would vote, none of the newest five does, and motion is off
C26_Witness ==
    /\ SampleCount = PrefillCount + BUFF_MIN_SIZE
    /\ g_detect.jitter_threshold > EPSILON
    /\ Votes(RecentJitter(BUFF_MIN_SIZE))
    /\ WindowMedian = JitterTop
    /\ VoteCount = 0
    /\ ~g_detect.human_status

\* ------------------------------------------------------------ both nodes: SpecRule
\* The presence rule of each node applied once to the same smoothed wander,
\* wander sensitivity and wander threshold.
RuleWanders == {0, 5 * 10, 10 * 100, 7 * 1000, WanderHi}
RuleSens == {SENS_MIN, DEF_WANDER_SENS, SensScale, SENS_MAX}
RuleThresholds ==
    {0, StoredWanderThSmall, EPSILON, EPSILON + 1, StoredWanderTh, S_DEF_WANDER_TH}

\* the master's link 0, active, holding the three inputs
MasterWith(w, s, th) ==
    [GStateDefault EXCEPT !.wander_threshold = th,
                          !.links[0].active = TRUE,
                          !.links[0].wander = w,
                          !.links[0].wander_sensitivity = s]
\* a slave whose 25 slots all hold w, so that the trimmed mean is w
SlaveWith(w, s, th) ==
    [GDetectDefault EXCEPT !.wander_threshold = th,
                           !.wander_sensitivity = s,
                           !.wander_buff = [k \in Slots |-> w],
                           !.buff_count = U32(RADAR_BUFF_MAX_LEN)]

\* recalculate_link_status(0) of the master and the vote loop of the slave
\* on the same inputs
rule_call(w, s, th) ==
    [input  |-> <<w, s, th>>,
     master |-> recalculate_link_status(MasterWith(w, s, th), 0).links[0].room_status,
     slave  |-> slave_detect(SlaveWith(w, s, th)).room_status]

RuleCall ==
    /\ stat = NoStat
    /\ \E w \in RuleWanders, s \in RuleSens, th \in RuleThresholds :
          stat' = rule_call(w, s, th)
    /\ UNCHANGED <<bench, cal_log, s_cal_since, twin, clock>>
    /\ UNCHANGED masterVars
    /\ UNCHANGED slaveVars

NextRule == RuleCall

SpecRule == InitSens /\ [][NextRule]_vars

\* ------------------------------------------------------------ C27
\* C27 (as claimed): for every smoothed wander, wander sensitivity and
\* wander threshold the room flag of the slave's vote loop equals the room
\* flag recalculate_link_status of the master gives for the same inputs.
C27_SameRoomRule == stat # NoStat => stat.slave = stat.master

\* ------------------------------------------------------------ master: SpecFresh
\* A master that was never calibrated: built-in defaults, an empty store, no
\* slave in range.  Local samples arrive, the operator sets sensitivities,
\* time passes.
MaxFreshSamples == 13
FreshRequests ==
    {Request(TRUE, 0, w, j) : w \in {SENS_MIN, SENS_MAX}, j \in {SENS_MIN, SENS_MAX}}

FreshSample ==
    SampleWith({s \in Samples : SteadySignal(g_state, s)}, MaxFreshSamples)
FreshSensitivity == HttpPostSensitivityWith(FreshRequests, {TRUE})

NextFresh == FreshSample \/ FreshSensitivity \/ Advance

SpecFresh == InitSens /\ [][NextFresh]_vars

\* ------------------------------------------------------------ C28
\* C28 (as claimed): on a master with boot defaults and nothing persisted
\* (wander_threshold = 0) that hears no slave, the fused room_status is
\* FALSE after every fusion pass, whatever the local samples and the
\* sensitivities are.
C28_FreshMasterNeverRoom == g_state.wander_threshold = 0 => ~g_state.room_status

\* ------------------------------------------------------------ C29
\* no callback is inside fuse_detection_results
AllIdle == \A t \in Tasks : task[t].pc = "idle"

\* C29 (as claimed): whenever the passes of the two callbacks have
\* overlapped and both have finished, the published room_status and
\* human_status are those of the quorum rule on the link table as the later
\* of the two events left it; a pass that counted before that update does
\* not overwrite the result of the pass that counted after it.
C29_LaterPassWins ==
    AllIdle =>
        LET ac == Cardinality(ActiveSet(g_state, clock))
            dc == Cardinality(DetectionSet(g_state, clock))
            mc == Cardinality(MotionSet(g_state, clock))
        IN /\ g_state.room_status = (dc >= Quorum(ac))
           /\ g_state.human_status = (dc >= Quorum(ac) /\ mc >= Quorum(ac))

\* ------------------------------------------------------------ master: SpecRace
\* The two callback tasks as in SpecConc, with the clock moving on in steps
\* of one millisecond while passes are under way.
MaxRaceTicks == 1
RaceQuantum == 1

RaceTick == AdvanceBy(RaceQuantum, MaxRaceTicks * RaceQuantum)

NextRace ==
    \/ RadarBegin
    \/ WifiBegin
    \/ \E t \in Tasks :
          FuseStep(t) \/ FuseTake(t) \/ FuseWriteRoom(t) \/ FuseWriteHuman(t)
          \/ FuseGive(t)
    \/ RaceTick

SpecRace == Init /\ [][NextRace]_vars

\* ------------------------------------------------------------ C30
\* task t runs the loop iteration for the link it has come to
Examines(t) == task[t].pc = "loop" /\ task'[t].i = task[t].i + 1

\* C30 (as claimed): a loop iteration of a fusion pass that comes to a link
\* which is active and was updated less than 3000 ms before this moment
\* leaves the link active and counts it, also when the link's report was
\* stored after the pass read the clock.
C30_FreshLinkCounted ==
    [][\A t \in Tasks :
          (/\ Examines(t)
           /\ g_state.links[task[t].i].active
           /\ FreshAt(g_state, task[t].i, clock))
             => /\ g_state'.links[task[t].i].active
                /\ task'[t].cnt.active_count = task[t].cnt.active_count + 1]_vars

\* ------------------------------------------------------------ master: SpecStop
\* finish_calibration taken step by step in the two tasks that call it: the
\* HTTP server task (POST /api/calibrate with "stop") and the timer task
\* ws_broadcast_task (auto-stop). No lock is held around it, so the steps of
\* the two tasks interleave freely. A start request runs in the HTTP server
\* task in one piece.
MaxSessions == 1
StopTasks == {"http", "ws"}
StopIdle == [pc |-> "idle"]

InitStop ==
    /\ nvs \in BootStores
    /\ g_state = nvs_load_settings(GStateDefault, nvs)
    /\ m_tx = <<>>
    /\ clock = U32(0)
    /\ g_state_mutex = "free"
    /\ task = [t \in StopTasks |-> StopIdle]
    /\ last_pass = NoPassYet
    /\ observed = StatusPair(g_state)
    /\ train = TrainIdle
    /\ http_req = NoRequest
    /\ InitSlaveOff
    /\ InitRig

\* task t moves on to position pc
GoTo(t, pc) == task' = [task EXCEPT ![t] = [pc |-> pc]]

\* POST /api/calibrate with "start" (lines 546-552)
StopStart ==
    /\ task["http"].pc = "idle"
    /\ cal_log.starts < MaxSessions
    /\ \E out \in TrainOut :
       \E r \in {http_post_calibrate(g_state, train, nvs, "start", clock, out, TRUE)} :
             /\ g_state' = r.st
             /\ train' = r.train
             /\ m_tx' = r.tx
    /\ cal_log' = [NoCalLog EXCEPT !.starts = cal_log.starts + 1,
                                   !.stops = cal_log.stops,
                                   !.trigger = "start"]
    /\ UNCHANGED <<nvs, clock, g_state_mutex, task, last_pass, observed, http_req>>
    /\ UNCHANGED <<slaveVars, bench, stat, s_cal_since, twin>>

\* POST /api/calibrate with "stop": the handler calls finish_calibration
\* (line 554)
HttpStopBegin ==
    /\ task["http"].pc = "idle"
    /\ GoTo("http", "check")
    /\ cal_log' = [cal_log EXCEPT !.trigger = "stop"]
    /\ UNCHANGED <<g_state, nvs, m_tx, clock, g_state_mutex, last_pass, observed,
                   train, http_req>>
    /\ UNCHANGED <<slaveVars, bench, stat, s_cal_since, twin>>

\* ws_broadcast_task finds the calibration expired and calls
\* finish_calibration (lines 806-810)
WsStopBegin ==
    /\ task["ws"].pc = "idle"
    /\ g_state.calibrating
    /\ CalibrationExpired(g_state, clock)
    /\ GoTo("ws", "check")
    /\ cal_log' = [cal_log EXCEPT !.trigger = "tick"]
    /\ UNCHANGED <<g_state, nvs, m_tx, clock, g_state_mutex, last_pass, observed,
                   train, http_req>>
    /\ UNCHANGED <<slaveVars, bench, stat, s_cal_since, twin>>

\* where finish_calibration returns to: the HTTP handler only formats its
\* response, the timer task goes on to format the status
Return(t) == IF t = "ws" THEN "snapshot" ELSE "idle"

\* if (!g_state.calibrating) return;  (line 522)
FinishCheck(t) ==
    /\ task[t].pc = "check"
    /\ GoTo(t, IF g_state.calibrating THEN "train_stop" ELSE Return(t))
    /\ UNCHANGED <<g_state, nvs, m_tx, clock, g_state_mutex, last_pass, observed,
                   train, http_req>>
    /\ UNCHANGED <<slaveVars, rigVars>>

\* esp_radar_train_stop(&g_state.wander_threshold, &g_state.jitter_threshold)
\* (line 525)
FinishTrainStop(t) ==
    /\ task[t].pc = "train_stop"
    /\ g_state' = [g_state EXCEPT !.wander_threshold = train.out[1],
                                  !.jitter_threshold = train.out[2]]
    /\ train' = [train EXCEPT !.on = FALSE]
    /\ cal_log' = [cal_log EXCEPT !.train_stop = @ + 1, !.th_write = @ + 1]
    /\ GoTo(t, "clear")
    /\ UNCHANGED <<nvs, m_tx, clock, g_state_mutex, last_pass, observed, http_req>>
    /\ UNCHANGED <<slaveVars, bench, stat, s_cal_since, twin>>

\* g_state.calibrating = false;  (line 526)
FinishClear(t) ==
    /\ task[t].pc = "clear"
    /\ g_state' = [g_state EXCEPT !.calibrating = FALSE]
    /\ GoTo(t, "broadcast")
    /\ UNCHANGED <<nvs, m_tx, clock, g_state_mutex, last_pass, observed, train,
                   http_req>>
    /\ UNCHANGED <<slaveVars, rigVars>>

\* broadcast_calibration_cmd(0x11);  (line 527)
FinishBroadcast(t) ==
    /\ task[t].pc = "broadcast"
    /\ m_tx' = <<CmdMsg(CMD_CAL_STOP)>>
    /\ cal_log' = [cal_log EXCEPT !.stops = @ + 1, !.cmd_stop = @ + 1]
    /\ GoTo(t, "save")
    /\ UNCHANGED <<g_state, nvs, clock, g_state_mutex, last_pass, observed, train,
                   http_req>>
    /\ UNCHANGED <<slaveVars, bench, stat, s_cal_since, twin>>

\* nvs_save_settings();  (line 533), then the return to the caller
FinishSave(t) ==
    /\ task[t].pc = "save"
    /\ \E open_ok \in BOOLEAN : nvs' = nvs_save_settings(g_state, nvs, open_ok)
    /\ GoTo(t, Return(t))
    /\ UNCHANGED <<g_state, m_tx, clock, g_state_mutex, last_pass, observed, train,
                   http_req>>
    /\ UNCHANGED <<slaveVars, rigVars>>

\* ws_broadcast_task formats the status under the mutex (lines 822-847)
WsSnapshot ==
    /\ task["ws"].pc = "snapshot"
    /\ mutex_available(g_state_mutex)
    /\ observed' = StatusPair(g_state)
    /\ GoTo("ws", "idle")
    /\ UNCHANGED <<g_state, nvs, m_tx, clock, g_state_mutex, last_pass, train,
                   http_req>>
    /\ UNCHANGED <<slaveVars, rigVars>>

NextStop ==
    \/ StopStart
    \/ HttpStopBegin
    \/ WsStopBegin
    \/ \E t \in StopTasks : FinishCheck(t)
    \/ \E t \in StopTasks : FinishTrainStop(t)
    \/ \E t \in StopTasks : FinishClear(t)
    \/ \E t \in StopTasks : FinishBroadcast(t)
    \/ \E t \in StopTasks : FinishSave(t)
    \/ WsSnapshot
    \/ AdvanceCal

SpecStop == InitStop /\ [][NextStop]_vars

\* C31: within one calibration session (since the last start) the training
\* accumulator is stopped at most once, the thresholds are overwritten at
\* most once and CalibrationStop (0x11) is broadcast at most once, also when
\* the timer task and the HTTP handler are both inside finish_calibration.
C31_StopOncePerSession ==
    /\ cal_log.train_stop <= 1
    /\ cal_log.th_write <= 1
    /\ cal_log.cmd_stop <= 1

\* ------------------------------------------------------------ C32
\* C32: a CalibrationStop (0x11) handed to a slave that is not in Training
\* (g_detect.calibrating is false) leaves the slave's wander_threshold, its
\* jitter_threshold and its persisted settings as they were.
C32_StrayStopIgnored ==
    [][(~g_detect.calibrating /\ s_rx' = CmdMsg(CMD_CAL_STOP))
          => /\ g_detect'.wander_threshold = g_detect.wander_threshold
             /\ g_detect'.jitter_threshold = g_detect.jitter_threshold
             /\ s_nvs' = s_nvs]_vars

\* ------------------------------------------------------------ master: SpecSeq
\* The calibration controller alone, every handler run in one piece, with
\* the log of what it did.
MaxStarts == 2

\* how often the command cmd is among the messages tx
CountCmd(tx, cmd) == Cardinality({k \in DOMAIN tx : tx[k] = CmdMsg(cmd)})

\* the log after a handler run triggered by trigger turned the accumulator
\* tr into r.train and sent r.tx
Logged(log, trigger, tr, r) ==
    LET started == CountCmd(r.tx, CMD_CAL_START)
        stopped == IF tr.on /\ ~r.train.on THEN 1 ELSE 0
        session == IF started > 0 THEN NoCalLog ELSE log
    IN [starts |-> log.starts + started,
        stops |-> log.stops + CountCmd(r.tx, CMD_CAL_STOP),
        train_stop |-> session.train_stop + stopped,
        th_write |-> session.th_write + stopped,
        cmd_stop |-> session.cmd_stop + CountCmd(r.tx, CMD_CAL_STOP),
        trigger |-> trigger]

\* POST /api/calibrate
SeqCalibrate ==
    /\ \E body \in Bodies, out \in TrainOut, open_ok \in BOOLEAN :
          /\ body = "start" => (CanFinishInTime /\ cal_log.starts < MaxStarts)
          /\ \E r \in {http_post_calibrate(g_state, train, nvs, body, clock,
                                            out, open_ok)} :
                /\ g_state' = r.st
                /\ train' = r.train
                /\ nvs' = r.nvs
                /\ m_tx' = r.tx
                /\ cal_log' = Logged(cal_log, body, train, r)
    /\ UNCHANGED <<clock, g_state_mutex, task, last_pass, observed, http_req>>
    /\ UNCHANGED <<slaveVars, bench, stat, s_cal_since, twin>>

\* one iteration of the loop of ws_broadcast_task
SeqTick ==
    /\ mutex_available(g_state_mutex)
    /\ \E open_ok \in BOOLEAN :
       \E r \in {ws_check_calibration(g_state, train, nvs, clock, open_ok)} :
             /\ g_state' = r.st
             /\ train' = r.train
             /\ nvs' = r.nvs
             /\ m_tx' = r.tx
             /\ observed' = StatusPair(r.st)
             /\ cal_log' = Logged(cal_log, "tick", train, r)
    /\ UNCHANGED <<clock, g_state_mutex, task, last_pass, http_req>>
    /\ UNCHANGED <<slaveVars, bench, stat, s_cal_since, twin>>

NextSeq == SeqCalibrate \/ SeqTick \/ AdvanceCal

SpecSeq == Init /\ [][NextSeq]_vars

\* ------------------------------------------------------------ C33
\* a stop request handled now changes nothing and sends nothing
StopIsNoOp ==
    \A out \in TrainOut, open_ok \in BOOLEAN :
       /\ finish_calibration(g_state, train, nvs, open_ok)
              = Outcome(g_state, train, nvs, <<>>)
       /\ http_post_calibrate(g_state, train, nvs, "stop", clock, out, open_ok)
              = Outcome(g_state, train, nvs, <<>>)

\* C33: while the controller is Idle (calibrating = FALSE) a stop request is
\* a no-op: the state with both thresholds, the accumulator and the store
\* stay as they are and nothing is broadcast; and in a run in which the
\* handlers do not overlap, CalibrationStop has never been broadcast more
\* often than CalibrationStart.
C33_IdleStopNoOp ==
    /\ ~g_state.calibrating => StopIsNoOp
    /\ cal_log.stops <= cal_log.starts

\* a session was started and stopped, and then a stop request arrived while
\* the controller was idle: it sent nothing
C33_Witness ==
    /\ cal_log.trigger = "stop"
    /\ ~g_state.calibrating
    /\ m_tx = <<>>
    /\ cal_log.starts >= 1
    /\ cal_log.stops = cal_log.starts
    /\ cal_log.cmd_stop = 1

\* ------------------------------------------------------------ both nodes: SpecReport
\* One slave and the master, joined by the slave's DetectionReports: the
\* slave samples and is told to start and stop calibrating; the master keeps
\* sampling (each sample from the fifth on runs a fusion pass) and its
\* espnow_recv_cb is handed the report the slave has just sent.
MaxReportTicks == 3
MaxReportSamples == 5

\* Bound on the environment: a report reaches the master within the
\* millisecond in which it was sent.
ReportsInAir ==
    {s_tx[k] : k \in {i \in 1..Len(s_tx) : report_timestamp(s_tx[i]) = clock}}

\* the master's espnow_recv_cb is handed a report the slave has just sent
MasterHear ==
    /\ \E msg \in ReportsInAir :
       \E r \in {espnow_recv_cb(g_state, msg, clock)} :
             /\ g_state' = r.st
             /\ last_pass' = PassRecord(r, last_pass)
    /\ m_tx' = <<>>
    /\ UNCHANGED <<nvs, clock, g_state_mutex, task, observed, train, http_req>>
    /\ UNCHANGED <<slaveVars, rigVars>>

\* the slave's espnow_recv_cb is handed CalibrationStart or CalibrationStop
SlaveCalibrate ==
    /\ \E data \in {CmdMsg(CMD_CAL_START), CmdMsg(CMD_CAL_STOP)} :
       \E out \in TrainOutFor(data) :
       \E r \in {slave_espnow_recv_cb(g_detect, s_nvs, s_train,
                                        s_last_send_time, g_node_id,
                                        data, out, TRUE)} :
             /\ g_detect' = r.d
             /\ s_nvs' = r.nvs
             /\ s_train' = r.train
             /\ s_tx' = r.tx
             /\ s_rx' = data
             /\ s_cal_since' = IF ~g_detect.calibrating /\ r.d.calibrating
                               THEN clock ELSE s_cal_since
    /\ UNCHANGED <<g_node_id, s_last_send_time, clock>>
    /\ UNCHANGED <<masterVars, bench, stat, cal_log, twin>>

\* Bound on the environment: the master's own link sees an empty room.
QuietSample == SampleWith({<<0, 0>>}, MaxReportSamples)

ReportSample ==
    SlaveSampleWith({s \in Samples : SteadySignal(g_detect, s)}, MaxReportSamples)

ReportTick == AdvanceBy(TimeQuantum, MaxReportTicks * TimeQuantum)

NextReport ==
    QuietSample \/ MasterHear \/ ReportSample \/ SlaveCalibrate \/ ReportTick

SpecReport == InitSlave /\ [][NextReport]_vars

\* ------------------------------------------------------------ C34
\* a step in which the slave sends something
SlaveSends == s_tx' # <<>> /\ s_tx' # s_tx

\* the slave has been calibrating for LINK_TIMEOUT_MS or more
LongTraining ==
    /\ g_detect.calibrating
    /\ Ge32(Sub32(clock, s_cal_since), U32(LINK_TIMEOUT_MS))

MaxTwinSamples == 5
MaxTwinTicks == 1

\* the analog fields of a report: wander, jitter, rssi, timestamp
Analogs ==
    {<<0, 0, 0, U32(0)>>,
     <<ReportWander, JitterHi, ReportRssi, U32(ReportTimestamp)>>}
TwinSens == {SENS_MIN, SENS_MAX}

\* Bound on the environment: the store holds the thresholds of an earlier
\* calibration.
InitTwin ==
    /\ BootMaster
    /\ nvs = MasterStoreOf([GStateDefault EXCEPT !.wander_threshold = StoredWanderTh])
    /\ bench = "none"
    /\ stat = NoStat
    /\ cal_log = NoCalLog
    /\ s_cal_since = U32(0)
    /\ twin = g_state

\* the sensing library hands both masters the same sample
TwinSample ==
    /\ Lt32(g_state.buff_count, U32(MaxTwinSamples))
    /\ \E s \in {x \in Samples : SteadySignal(g_state, x)} :
       \E r \in {wifi_radar_cb(g_state, s[1], s[2], clock)} :
             /\ g_state' = r.st
             /\ last_pass' = PassRecord(r, last_pass)
             /\ twin' = wifi_radar_cb(twin, s[1], s[2], clock).st
    /\ m_tx' = <<>>
    /\ UNCHANGED <<nvs, clock, g_state_mutex, task, observed, train, http_req>>
    /\ UNCHANGED <<slaveVars, bench, stat, cal_log, s_cal_since>>

\* both masters are handed a report of the same slave with the same flags
TwinReport ==
    /\ \E n \in 1..MAX_SLAVE_NODES, room \in BOOLEAN, human \in BOOLEAN :
       \E a \in Analogs : \E b \in Analogs \ {a} :
       \E r \in {espnow_recv_cb(g_state,
                     encode_report(n, room, human, a[1], a[2], a[3], a[4]),
                     clock)} :
             /\ g_state' = r.st
             /\ last_pass' = PassRecord(r, last_pass)
             /\ twin' = espnow_recv_cb(twin,
                            encode_report(n, room, human, b[1], b[2], b[3], b[4]),
                            clock).st
    /\ m_tx' = <<>>
    /\ UNCHANGED <<nvs, clock, g_state_mutex, task, observed, train, http_req>>
    /\ UNCHANGED <<slaveVars, bench, stat, cal_log, s_cal_since>>

\* POST /api/sensitivity for the link of slave 1, with values of its own for
\* each master
TwinSensitivity ==
    /\ \E l \in {1}, a \in TwinSens : \E b \in TwinSens \ {a} :
       \E r \in {http_post_sensitivity(g_state, train, nvs,
                                        Request(TRUE, l, a, a), TRUE)} :
             /\ g_state' = r.st
             /\ nvs' = r.nvs
             /\ m_tx' = r.tx
             /\ http_req' = Request(TRUE, l, a, a)
             /\ twin' = http_post_sensitivity(twin, train, nvs,
                                              Request(TRUE, l, b, b), TRUE).st
    /\ UNCHANGED <<clock, g_state_mutex, task, last_pass, observed, train>>
    /\ UNCHANGED <<slaveVars, bench, stat, cal_log, s_cal_since>>

TwinTick == AdvanceBy(LINK_TIMEOUT_MS, MaxTwinTicks * LINK_TIMEOUT_MS)

NextTwin == TwinSample \/ TwinReport \/ TwinSensitivity \/ TwinTick

SpecTwin == InitTwin /\ [][NextTwin]_vars

\* ------------------------------------------------------------ C35
\* C35: two masters fed the same events, whose slave reports differ only in
\* wander, jitter, rssi and timestamp and whose stored sensitivities differ
\* only for links 1 and 2, hold the same fused room and moving values after
\* every fusion pass, and the same flags, activity and arrival time for
\* every link.
C35_AnalogIndependent ==
    /\ twin.room_status = g_state.room_status
    /\ twin.human_status = g_state.human_status
    /\ \A i \in Links :
          /\ twin.links[i].active = g_state.links[i].active
          /\ twin.links[i].room_status = g_state.links[i].room_status
          /\ twin.links[i].human_status = g_state.links[i].human_status
          /\ twin.links[i].last_update = g_state.links[i].last_update

\* the two masters differ in what link 1 reported and in its sensitivities,
\* link 1 is the only link that detects, and a pass has fused it into a
\* room that is occupied
C35_Witness ==
    /\ twin.links[1].wander # g_state.links[1].wander
    /\ twin.links[1].jitter # g_state.links[1].jitter
    /\ twin.links[1].wander_sensitivity # g_state.links[1].wander_sensitivity
    /\ g_state.links[1].active
    /\ g_state.links[1].room_status
    /\ ~g_state.links[0].room_status
    /\ ~g_state.links[2].room_status
    /\ g_state.room_status
    /\ twin.room_status
    /\ last_pass.now = clock

\* ------------------------------------------------------------ both nodes: SpecWrap
\* Master and slave at the point where the 32-bit sample counter wraps: each
\* has been sampling a quiet room since boot and has WrapLead samples to go
\* until buff_count turns from 2^32-1 to 0; from now on the room is busy.
MaxWrapSamples == 8
WrapLead == 2

\* buff_count one sample before the first state of the run
BeforeWrap == Sub32(U32(0), U32(WrapLead + 1))

InitWrap ==
    /\ nvs = EmptyStore
    /\ clock = U32(0)
    /\ g_state = wifi_radar_cb([GStateDefault EXCEPT !.buff_count = BeforeWrap],
                               0, 0, clock).st
    /\ m_tx = <<>>
    /\ g_state_mutex = "free"
    /\ task = [t \in {"radar", "wifi"} |-> TaskIdle]
    /\ last_pass = NoPassYet
    /\ observed = StatusPair(g_state)
    /\ train = TrainIdle
    /\ http_req = NoRequest
    /\ g_detect = slave_wifi_radar_cb(
                      [GDetectDefault EXCEPT !.buff_count = BeforeWrap],
                      EmptyStore, SlaveTrainIdle, U32(0), CONFIG_SLAVE_NODE_ID,
                      0, 0, clock).d
    /\ g_node_id = CONFIG_SLAVE_NODE_ID
    /\ s_nvs = EmptyStore
    /\ s_tx = <<>>
    /\ s_last_send_time = U32(0)
    /\ s_train = SlaveTrainIdle
    /\ s_rx = <<>>
    /\ InitRig

\* count is within MaxWrapSamples samples of the first state of the run
NearWrap(count) == Lt32(Add32(count, U32(WrapLead)), U32(MaxWrapSamples))

\* the sensing library hands the master a sample
WrapSample ==
    /\ NearWrap(g_state.buff_count)
    /\ \E r \in {wifi_radar_cb(g_state, WanderHi, JitterHi, clock)} :
          /\ g_state' = r.st
          /\ last_pass' = PassRecord(r, last_pass)
    /\ m_tx' = <<>>
    /\ UNCHANGED <<nvs, clock, g_state_mutex, task, observed, train, http_req>>
    /\ UNCHANGED <<slaveVars, rigVars>>

\* the sensing library hands the slave a sample
SlaveWrapSample ==
    /\ NearWrap(g_detect.buff_count)
    /\ \E r \in {slave_wifi_radar_cb(g_detect, s_nvs, s_train, s_last_send_time,
                                     g_node_id, WanderHi, JitterHi, clock)} :
          /\ g_detect' = r.d
          /\ s_tx' = r.tx
          /\ s_last_send_time' = r.last_send
    /\ s_rx' = <<>>
    /\ UNCHANGED <<g_node_id, s_nvs, s_train, clock>>
    /\ UNCHANGED <<masterVars, rigVars>>

NextWrap == WrapSample \/ SlaveWrapSample \/ AdvanceSlave

SpecWrap == InitWrap /\ [][NextWrap]_vars

\* ------------------------------------------------------------ C36
\* the slots of a window that a step has written
Written(old, new) == {k \in Slots : new[k] # old[k]}
\* the slot that follows the slot of the sample before the one counted count
Following(count) == (Mod32(Sub32(count, U32(1)), RADAR_BUFF_MAX_LEN) + 1)
                        % RADAR_BUFF_MAX_LEN

\* C36: on a node that has received 5 samples or more, every further sample
\* is written to the slot that follows (mod 25) the slot of the sample before
\* it, and the callback gets past its warm-up gate (the master runs a fusion
\* pass, the slave evaluates its window), whatever the value of the 32-bit
\* sample counter.
C36_WindowAcrossWrap ==
    [][/\ g_state'.buff_count # g_state.buff_count
            => /\ Written(g_state.wander_buff, g_state'.wander_buff)
                      = {Following(g_state.buff_count)}
               /\ wifi_radar_cb(g_state, WanderHi, JitterHi, clock).ran
       /\ g_detect'.buff_count # g_detect.buff_count
            => /\ Written(g_detect.wander_buff, g_detect'.wander_buff)
                      = {Following(g_detect.buff_count)}
               /\ Ge32(g_detect'.buff_count, U32(BUFF_MIN_SIZE))]_vars
====
